---- MODULE Spec2Model ----
(***************************************************************************)
(* Utility-bill automation: the draft generator (src/src/email_drafts.py), *)
(* the run of main (src/main.py), the record store (src/src/excel.py) and  *)
(* the layout-B date extraction (src/src/bill_extractors.py).              *)
(*                                                                         *)
(* Representation.  An ISO date string "YYYY-MM-DD" is the triple          *)
(* <<y, m, d>> of its three numeric fields; its prefix [:7] is <<y, m>>.   *)
(* Currency amounts are integer cents.  A Python value that is either an   *)
(* int or a str (house_number) is the record [kind, num, str].             *)
(***************************************************************************)
EXTENDS Integers, Sequences, FiniteSets, TLC

VARIABLES
    \* ---- generate_email_drafts (email_drafts.py) ----
    processed_bills,   \* the batch handed to generate_email_drafts
    custom_month,      \* its custom_month argument (NoMonth for None)
    test_mode,         \* the resolved test_mode
    caller,            \* who called generate_email_drafts: "main" or "direct"
    pc,                \* position in generate_email_drafts
    gen_status,        \* how generate_email_drafts left its prologue
    todo,              \* bundles of bills_by_house.items() not yet iterated
    drafts,            \* one entry per iterated house (loop lines 386-404)
    transport,         \* calls of save_draft_via_imap, in order
    stdout,            \* lines generate_email_drafts printed about a failure or a house
    \* ---- main (main.py) ----
    main_pc,           \* position in main
    pdf_files,         \* documents of the raw folder, as get_pdf_files lists them
    next_file,         \* index of the next document of the loop 179-183
    rows,              \* main's rows list
    raw_folder,        \* file names now in the raw bills folder
    processed_folder,  \* file names now in the processed folder
    images_folder,     \* image names written by create_pdf_image
    rename_files,      \* the RENAME_FILES setting get_rename_files returns
    log,               \* log records and printed lines, in order
    \* ---- record store (excel.py) ----
    store_exists,      \* os.path.exists(excel_path) and the sheet is there
    store,             \* rows of the data sheet, in order
    calls,             \* number of append_rows_to_excel calls so far
    last_call,         \* [before, rows] of the latest append_rows_to_excel call
    \* ---- layout-B extraction (bill_extractors.py) ----
    atco_text,         \* the due-by token of the text: [mon, day, year] or absent
    atco_out,          \* [done, bill_date] of extract_atco_from_pdf
    \* ---- functions checked on their own ----
    fn_input,          \* the arguments of the call
    fn_output,         \* what the call returned or raised
    \* ---- configuration (config.py) ----
    config_cache,      \* _config_cache
    tenant_cache,      \* _tenant_cache
    config_reads,      \* number of pd.read_excel calls on the Config sheet so far
    config_loaded,     \* a read of the Config sheet succeeded since the caches were last emptied
    config_result      \* the latest call of config.py and what it returned or raised

draft_vars == <<processed_bills, custom_month, test_mode, caller, pc, gen_status,
                todo, drafts, transport, stdout>>
main_vars == <<main_pc, pdf_files, next_file, rows, raw_folder, processed_folder,
               images_folder, rename_files, log>>
store_vars == <<store_exists, store, calls, last_call>>
atco_vars == <<atco_text, atco_out>>
fn_vars == <<fn_input, fn_output>>
config_vars == <<config_cache, tenant_cache, config_reads, config_loaded, config_result>>
vars == <<draft_vars, main_vars, store_vars, atco_vars, fn_vars, config_vars>>

----------------------------------------------------------------------------
(* Bounds of the model. *)

MaxBills == 2      \* longest batch handed to generate_email_drafts
MaxDocs == 2       \* most documents in the raw folder
MaxRows == 2       \* most rows in one append_rows_to_excel call
MaxCalls == 2      \* most append_rows_to_excel calls in a behaviour
MaxText == 5       \* longest first-page text of the house extraction, in symbols
MaxPage == 3       \* longest first-page text of the vendor detection, in symbols
MaxSent == 2       \* most records of a batch whose drafts all go to the transport
MaxLine == 4       \* longest text of the amount extraction, in symbols

----------------------------------------------------------------------------
(* Python values. *)

\* None where a number is expected (custom_month: int = None).
NoMonth == 0
\* The '' that process_single_file stores for a missing amount, and None.
EmptyAmount == -1
\* None where a date string is expected.
NoDate == <<>>

HouseInt(n) == [kind |-> "int", num |-> n, str |-> ""]
HouseStr(s) == [kind |-> "str", num |-> 0, str |-> s]
NoHouse == [kind |-> "none", num |-> 0, str |-> ""]

Digit(d) ==
    CASE d = 0 -> "0" [] d = 1 -> "1" [] d = 2 -> "2" [] d = 3 -> "3"
      [] d = 4 -> "4" [] d = 5 -> "5" [] d = 6 -> "6" [] d = 7 -> "7"
      [] d = 8 -> "8" [] d = 9 -> "9"

RECURSIVE IntToStr(_)
IntToStr(n) == IF n < 10 THEN Digit(n) ELSE IntToStr(n \div 10) \o Digit(n % 10)

\* A variant of Str that renders a string with its quotes, as repr does.
StrWithQuotes(h) ==
    CASE h.kind = "int" -> IntToStr(h.num)
      [] h.kind = "str" -> "'" \o h.str \o "'"
      [] OTHER -> "None"

\* str(house) of a house_number value.
Str(h) ==
    CASE h.kind = "int" -> IntToStr(h.num)
      [] h.kind = "str" -> h.str
      [] OTHER -> "None"

----------------------------------------------------------------------------
(* Calendar: datetime.strptime, calendar.monthrange. *)

IsLeap(y) == (y % 4 = 0 /\ y % 100 # 0) \/ y % 400 = 0

\* calendar.monthrange(y, m)[1]
DaysInMonth(y, m) ==
    CASE m \in {1, 3, 5, 7, 8, 10, 12} -> 31
      [] m \in {4, 6, 9, 11} -> 30
      [] OTHER -> IF IsLeap(y) THEN 29 ELSE 28

\* datetime.strptime(s, "%Y-%m-%d") returns (it raises ValueError otherwise).
ValidDate(d) ==
    /\ d # NoDate
    /\ d[1] >= 1
    /\ d[2] \in 1..12
    /\ d[3] \in 1..DaysInMonth(d[1], d[2])

\* bill_date_to_month_end, for a date on which strptime returns.
bill_date_to_month_end(d) == <<d[1], d[2], DaysInMonth(d[1], d[2])>>

\* Order of two ISO strings with four-digit years (Python's str comparison).
DateLess(a, b) ==
    \/ a[1] < b[1]
    \/ a[1] = b[1] /\ a[2] < b[2]
    \/ a[1] = b[1] /\ a[2] = b[2] /\ a[3] < b[3]

\* bill_date[:7]
YearMonth(d) == <<d[1], d[2]>>

----------------------------------------------------------------------------
(* _group_bills_by_house (email_drafts.py 244-314). *)

\* The skip test of lines 270 and 297:
\*   if not bill_date or amount is None or amount == '': continue
Skipped(bill) == bill.bill_date = NoDate \/ bill.bill_amount = EmptyAmount

\* The dict appended at 273-277 and 302-306; float(amount) of a number.
BillEntry(bill) ==
    [vendor |-> bill.vendor, amount |-> bill.bill_amount, date |-> bill.bill_date]

\* Position of key k in an insertion-ordered dict (a sequence of entries), or 0.
KeyIndex(dict, k) ==
    IF \E i \in 1..Len(dict) : dict[i].key = k
    THEN CHOOSE i \in 1..Len(dict) : dict[i].key = k
    ELSE 0

\* defaultdict(list)[k].append(e): the key is created at its first append.
DictAppend(dict, k, e) ==
    LET i == KeyIndex(dict, k)
    IN  IF i = 0
        THEN Append(dict, [key |-> k, val |-> <<e>>])
        ELSE [dict EXCEPT ![i].val = Append(@, e)]

\* defaultdict(lambda: defaultdict(list))[h][k].append(e)
DictAppend2(dict, h, k, e) ==
    LET i == KeyIndex(dict, h)
    IN  IF i = 0
        THEN Append(dict, [key |-> h, val |-> DictAppend(<<>>, k, e)])
        ELSE [dict EXCEPT ![i].val = DictAppend(@, k, e)]

\* The loop of lines 264-277 (custom month mode), from bill i on.
RECURSIVE GroupCustomLoop(_, _, _)
GroupCustomLoop(bills, i, bills_by_house) ==
    IF i > Len(bills) THEN bills_by_house
    ELSE IF Skipped(bills[i]) THEN GroupCustomLoop(bills, i + 1, bills_by_house)
    ELSE GroupCustomLoop(bills, i + 1,
            DictAppend(bills_by_house, Str(bills[i].house_number), BillEntry(bills[i])))

\* The loop of lines 291-306 (latest month mode), from bill i on.  The call of
\* bill_date_to_month_end at 301 raises ValueError on a date strptime rejects.
RECURSIVE GroupLatestLoop(_, _, _)
GroupLatestLoop(bills, i, bills_by_house_month) ==
    IF i > Len(bills) THEN [raised |-> FALSE, dict |-> bills_by_house_month]
    ELSE IF Skipped(bills[i]) THEN GroupLatestLoop(bills, i + 1, bills_by_house_month)
    ELSE IF ~ValidDate(bills[i].bill_date)
         THEN [raised |-> TRUE, dict |-> bills_by_house_month]
    ELSE GroupLatestLoop(bills, i + 1,
            DictAppend2(bills_by_house_month, Str(bills[i].house_number),
                        bill_date_to_month_end(bills[i].bill_date), BillEntry(bills[i])))

\* max(months_data.keys()), line 311.
LatestMonth(months_data) ==
    LET keys == {months_data[i].key : i \in 1..Len(months_data)}
    IN  CHOOSE k \in keys : \A o \in keys : o = k \/ DateLess(o, k)

\* A variant of CustomMonthDate that takes February as 28 days in every year.
CustomMonthDate_fixed_february(year, month) ==
    <<year, month, IF month = 2 THEN 28 ELSE DaysInMonth(year, month)>>

\* f"{year:04d}-{custom_month:02d}-{last_day:02d}", lines 280-282.
CustomMonthDate(year, month) == <<year, month, DaysInMonth(year, month)>>

\* _group_bills_by_house(processed_bills, custom_month), with datetime.now().year
\* given: [raised, result], result the returned dict in its iteration order.
group_bills_by_house(bills, month, year) ==
    IF month # NoMonth
    THEN LET d == GroupCustomLoop(bills, 1, <<>>)
         IN  [raised |-> FALSE,
              result |-> [i \in 1..Len(d) |->
                            [house |-> d[i].key,
                             month_date |-> CustomMonthDate(year, month),
                             bills |-> d[i].val]]]
    ELSE LET g == GroupLatestLoop(bills, 1, <<>>)
             d == g.dict
         IN  IF g.raised THEN [raised |-> TRUE, result |-> <<>>]
             ELSE [raised |-> FALSE,
                   result |-> [i \in 1..Len(d) |->
                                 LET latest_month == LatestMonth(d[i].val)
                                 IN  [house |-> d[i].key,
                                      month_date |-> latest_month,
                                      bills |-> d[i].val[KeyIndex(d[i].val, latest_month)].val]]]

----------------------------------------------------------------------------
(* House policies and create_email_draft (email_drafts.py 34-199). *)

\* A variant of HOUSE_POLICIES whose default entry requires no vendor.
HOUSE_POLICIES_default_requires_none ==
    [k \in {"1705", "1707", "default"} |->
        IF k \in {"1705", "1707"}
        THEN [required_vendors |-> <<"ENMAX", "ATCO">>, template |-> "dual_vendor"]
        ELSE [required_vendors |-> <<>>, template |-> "single_vendor"]]

HOUSE_POLICIES ==
    [k \in {"1705", "1707", "default"} |->
        IF k \in {"1705", "1707"}
        THEN [required_vendors |-> <<"ENMAX", "ATCO">>, template |-> "dual_vendor"]
        ELSE [required_vendors |-> <<"ENMAX">>, template |-> "single_vendor"]]

\* _get_house_policy: HOUSE_POLICIES.get(str(house), HOUSE_POLICIES["default"])
get_house_policy(house) ==
    IF house \in DOMAIN HOUSE_POLICIES THEN HOUSE_POLICIES[house]
    ELSE HOUSE_POLICIES["default"]

\* f"{house} {date_formatted} {vendor}.png", lines 95-96.
ImageName(house, bill_date, vendor) ==
    [house |-> house, ym |-> YearMonth(bill_date), vendor |-> vendor]

\* Every name find_house_utility_images looks up for a bundle.
CandidateImages(house, bills_data) ==
    {ImageName(house, bills_data[i].date, bills_data[i].vendor) : i \in 1..Len(bills_data)}

\* Python's order of two image paths of one house.
VendorLess(a, b) == a = "ATCO" /\ b = "ENMAX"
NameLess(a, b) ==
    \/ a.ym[1] < b.ym[1]
    \/ a.ym[1] = b.ym[1] /\ a.ym[2] < b.ym[2]
    \/ a.ym = b.ym /\ VendorLess(a.vendor, b.vendor)

\* sorted(image_paths)
RECURSIVE Sorted(_)
Sorted(paths) ==
    IF paths = <<>> THEN <<>>
    ELSE LET i == CHOOSE i \in 1..Len(paths) :
                    \A j \in 1..Len(paths) : ~NameLess(paths[j], paths[i])
         IN  <<paths[i]>> \o
             Sorted(SubSeq(paths, 1, i - 1) \o SubSeq(paths, i + 1, Len(paths)))

SeqToSet(q) == {q[i] : i \in 1..Len(q)}

\* The loop of lines 90-101: the bills whose image exists, in order.
FoundBills(house, bills_data, exists) ==
    SelectSeq(bills_data, LAMBDA b : ImageName(house, b.date, b.vendor) \in exists)

\* A variant of find_house_utility_images without the required-vendor check of
\* lines 104-107: it fails only when no image at all is found.
find_house_utility_images_without_required_check(house, month_date, bills_data, exists) ==
    LET found == SelectSeq(bills_data,
                           LAMBDA b : [house |-> house, ym |-> <<b.date[1], b.date[2]>>,
                                       vendor |-> b.vendor] \in exists)
        image_paths == [i \in 1..Len(found) |->
                            [house |-> house, ym |-> <<found[i].date[1], found[i].date[2]>>,
                             vendor |-> found[i].vendor]]
    IN  IF image_paths = <<>>
        THEN [raised |-> TRUE,
              error |-> [exc |-> "ValueError", text |-> "No utility bill images found",
                         house |-> house, month_date |-> month_date, vendors |-> <<>>],
              image_paths |-> <<>>]
        ELSE [raised |-> FALSE,
              error |-> [exc |-> "none", text |-> "", house |-> house,
                         month_date |-> month_date, vendors |-> <<>>],
              image_paths |-> Sorted(image_paths)]

\* find_house_utility_images, `exists` being the names img_path.exists() holds for.
find_house_utility_images(house, month_date, bills_data, exists) ==
    LET required_vendors == get_house_policy(house).required_vendors
        found == FoundBills(house, bills_data, exists)
        image_paths == [i \in 1..Len(found) |->
                            ImageName(house, found[i].date, found[i].vendor)]
        vendors_found == {found[i].vendor : i \in 1..Len(found)}
        missing_vendors == SelectSeq(required_vendors, LAMBDA v : v \notin vendors_found)
    IN  IF required_vendors # <<>> /\ missing_vendors # <<>>
        THEN [raised |-> TRUE,
              error |-> [exc |-> "ValueError", text |-> "Missing required vendors",
                         house |-> house, month_date |-> month_date,
                         vendors |-> missing_vendors],
              image_paths |-> <<>>]
        ELSE IF image_paths = <<>>
        THEN [raised |-> TRUE,
              error |-> [exc |-> "ValueError", text |-> "No utility bill images found",
                         house |-> house, month_date |-> month_date, vendors |-> <<>>],
              image_paths |-> <<>>]
        ELSE [raised |-> FALSE,
              error |-> [exc |-> "none", text |-> "", house |-> house,
                         month_date |-> month_date, vendors |-> <<>>],
              image_paths |-> Sorted(image_paths)]

\* create_email_draft: [raised, error, msg].  With bills_data empty, image_paths
\* is read unbound at line 122 (UnboundLocalError).
create_email_draft(house, month_date, total_utilities, vendor_breakdown, bills_data, exists) ==
    LET f == find_house_utility_images(house, month_date, bills_data, exists)
        no_msg == [To |-> "", attachments |-> <<>>]
    IN  IF bills_data = <<>>
        THEN [raised |-> TRUE,
              error |-> [exc |-> "UnboundLocalError", text |-> "image_paths",
                         house |-> house, month_date |-> month_date, vendors |-> <<>>],
              msg |-> no_msg]
        ELSE IF f.raised THEN [raised |-> TRUE, error |-> f.error, msg |-> no_msg]
        ELSE [raised |-> FALSE, error |-> f.error,
              msg |-> [To |-> "tenant_" \o house \o "@example.com",
                       attachments |-> f.image_paths]]

----------------------------------------------------------------------------
(* generate_email_drafts (email_drafts.py 348-412). *)

\* sum(b['amount'] for b in bills_for_month), line 388.
RECURSIVE SumAmounts(_)
SumAmounts(bills) ==
    IF bills = <<>> THEN 0 ELSE bills[1].amount + SumAmounts(Tail(bills))

\* Index of the last bill of vendor v.
LastOf(bills, v) ==
    CHOOSE i \in 1..Len(bills) :
        /\ bills[i].vendor = v
        /\ \A j \in (i + 1)..Len(bills) : bills[j].vendor # v

\* {b['vendor']: b['amount'] for b in bills_for_month}, line 391: a later bill
\* of a vendor replaces the value an earlier one stored.
VendorBreakdown(bills) ==
    [v \in {bills[i].vendor : i \in 1..Len(bills)} |-> bills[LastOf(bills, v)].amount]

\* A printed line: its text without the values formatted in, and the house the
\* values name ("" when the line names none).
Line(text, unit) == [text |-> text, unit |-> unit]

\* A variant of send_or_print_draft that calls save_draft_via_imap a second
\* time when the first call fails.
send_or_print_draft_with_retry(msg, house, test, imap_ok) ==
    IF test
    THEN [attempts |-> <<>>, ok |-> TRUE,
          lines |-> <<Line("TEST: Would create email draft", house)>>]
    ELSE [attempts |-> IF imap_ok
                       THEN <<[house |-> house, msg |-> msg, ok |-> TRUE]>>
                       ELSE <<[house |-> house, msg |-> msg, ok |-> FALSE],
                              [house |-> house, msg |-> msg, ok |-> FALSE]>>,
          ok |-> imap_ok,
          lines |-> IF imap_ok
                    THEN <<Line("Draft saved to Yahoo Drafts mailbox", "")>>
                    ELSE <<Line("Failed to save draft via IMAP", house)>>]

\* _send_or_print_draft(msg, house, test_mode), lines 317-345, imap_ok being
\* whether save_draft_via_imap (212-242) returns True: the calls of
\* save_draft_via_imap it makes, what it returns and what is printed.
send_or_print_draft(msg, house, test, imap_ok) ==
    IF test
    THEN [attempts |-> <<>>, ok |-> TRUE,
          lines |-> <<Line("TEST: Would create email draft", house)>>]
    ELSE [attempts |-> <<[house |-> house, msg |-> msg, ok |-> imap_ok]>>,
          ok |-> imap_ok,
          lines |-> IF imap_ok
                    THEN <<Line("Draft saved to Yahoo Drafts mailbox", "")>>
                    ELSE <<Line("Draft not saved via IMAP", ""),
                           Line("Failed to save draft via IMAP", house)>>]

\* Lines 358-364: the test_mode argument, else the 'test_email_drafts' setting,
\* else False when get_config raises.
ResolveTestMode(arg, setting) ==
    IF arg # "None" THEN arg = "True" ELSE setting = "True"

----------------------------------------------------------------------------
(* Extraction and process_single_file (data_processing.py, main.py 29-158). *)

\* A document is what its first-page text yields: the vendor its markers
\* classify it to ("NONE" when detect_vendor_from_pdf raises) and the three
\* fields the extractor of that vendor finds (None where a pattern finds nothing).

\* int(house) of a roster string, line 50 of data_processing.py.
ParseHouse(h) ==
    IF h.kind = "str" /\ \E n \in 0..9999 : IntToStr(n) = h.str
    THEN HouseInt(CHOOSE n \in 0..9999 : IntToStr(n) = h.str)
    ELSE h

\* normalize_row on the dict an extractor returns: vendor is one of the two
\* tags, the amount a numeric string or None, the date already YYYY-MM-DD or None.
normalize_row(data) ==
    [data EXCEPT !.house_number = ParseHouse(data.house_number)]

\* The body of route_and_extract(filename), lines 59-73.
route_and_extract(doc) ==
    IF doc.vendor = "NONE"
    THEN [raised |-> TRUE, exc |-> "ValueError", data |-> doc]
    ELSE [raised |-> FALSE, exc |-> "none", data |-> normalize_row(doc)]

\* A call of route_and_extract with nargs positional arguments: the function
\* takes exactly one (data_processing.py 57), any other call raises TypeError
\* before its body runs.
route_and_extract_call(nargs, doc) ==
    IF nargs # 1
    THEN [raised |-> TRUE, exc |-> "TypeError", data |-> doc]
    ELSE route_and_extract(doc)

\* Number of positional arguments main.py 117 passes: (filename, source_folder).
ArgsPassed == 2

\* Python truth of a house_number and of a bill_date.
Falsy(h) ==
    h.kind = "none" \/ (h.kind = "int" /\ h.num = 0) \/ (h.kind = "str" /\ h.str = "")

\* A variant of ValidationFails that rejects only data with neither field.
ValidationFailsWhenBothMissing(data) ==
    Falsy(data.house_number) /\ data.bill_date = NoDate

\* validate_data raises ValueError, lines 41-44.
ValidationFails(data) == Falsy(data.house_number) \/ data.bill_date = NoDate

Pad2(n) == IF n < 10 THEN "0" \o IntToStr(n) ELSE IntToStr(n)
Pad4(n) ==
    IF n < 10 THEN "000" \o IntToStr(n)
    ELSE IF n < 100 THEN "00" \o IntToStr(n)
    ELSE IF n < 1000 THEN "0" \o IntToStr(n)
    ELSE IntToStr(n)

\* build_target_filename(str(house), iso_date, vendor, ".pdf"); safe_filename
\* leaves digits, letters, spaces and dashes alone.
build_target_filename(house, iso_date, vendor) ==
    Str(house) \o " " \o Pad4(iso_date[1]) \o "-" \o Pad2(iso_date[2]) \o " " \o vendor \o ".pdf"

\* rename_file, lines 58-68.
rename_file(filename, house, iso_date, vendor, rename) ==
    IF rename THEN build_target_filename(house, iso_date, vendor) ELSE filename

\* safe_filename(f"{house}_{iso_date}_{vendor}.png"), file_helpers.py 83.
CreatedImageName(house, iso_date, vendor) ==
    [house |-> Str(house), date |-> iso_date, vendor |-> vendor]

\* A variant of process_single_file that moves the document before extracting.
process_single_file_moving_first(doc, move_file_after, image_ok, move_ok, rename) ==
    [returned |-> FALSE, row |-> doc, image |-> {},
     moved |-> move_file_after /\ move_ok, target |-> doc.file,
     log |-> IF route_and_extract_call(ArgsPassed, doc).raised
             THEN <<[level |-> "error", text |-> "Extraction failed", unit |-> doc.file]>>
             ELSE <<>>]

\* process_single_file(filename, source_folder, move_file_after), lines 112-158:
\* what it returns and what it does to the folders, given whether
\* convert_pdf_to_image and os.replace succeed and the rename setting.
process_single_file(doc, move_file_after, image_ok, move_ok, rename) ==
    LET r == route_and_extract_call(ArgsPassed, doc)
        data == r.data
        target_filename == rename_file(doc.file, data.house_number, data.bill_date,
                                       data.vendor, rename)
        image == IF image_ok
                 THEN {CreatedImageName(data.house_number, data.bill_date, data.vendor)}
                 ELSE {}
        nothing == [returned |-> FALSE, row |-> doc, image |-> {}, moved |-> FALSE,
                    target |-> doc.file, log |-> <<>>]
    IN  IF r.raised
        THEN [nothing EXCEPT !.log = <<[level |-> "error", text |-> "Extraction failed",
                                        unit |-> doc.file]>>]
        ELSE IF ValidationFails(data)
        THEN [nothing EXCEPT !.log = <<[level |-> "error", text |-> "Validation failed",
                                        unit |-> doc.file]>>]
        ELSE IF move_file_after /\ ~move_ok
        THEN [nothing EXCEPT !.image = image,
                             !.log = <<[level |-> "error", text |-> "Failed to move file",
                                        unit |-> doc.file]>>]
        ELSE [returned |-> TRUE,
              row |-> [file |-> target_filename,
                       house_number |-> data.house_number,
                       bill_amount |-> data.bill_amount,
                       bill_date |-> data.bill_date,
                       vendor |-> data.vendor],
              image |-> image,
              moved |-> move_file_after,
              target |-> target_filename,
              log |-> IF data.bill_amount = EmptyAmount
                      THEN <<[level |-> "warning", text |-> "Amount missing",
                              unit |-> doc.file]>>
                      ELSE <<>>]

----------------------------------------------------------------------------
(* append_rows_to_excel (excel.py 13-94). *)

\* _get_fallback_tenant_data (config.py 108-135) and DEFAULT_TENANT_DATA.
TenantName(house) ==
    CASE house = "819" -> "Sarah Johnson"
      [] house = "1705" -> "Mike Chen"
      [] house = "1707" -> "Emma Rodriguez"
      [] house = "1712" -> "James Wilson"
      [] OTHER -> "Tenant " \o house

\* Lines 42-50: the row with its tenant_name column.
Enrich(row) ==
    [file |-> row.file, house_number |-> row.house_number,
     tenant_name |-> TenantName(Str(row.house_number)),
     bill_amount |-> row.bill_amount, bill_date |-> row.bill_date,
     vendor |-> row.vendor]

\* pd.to_datetime(x, errors='coerce'): NaT for what is no calendar date.
PdToDatetime(d) == IF ValidDate(d) THEN d ELSE NoDate

CoerceDates(df) == [i \in 1..Len(df) |-> [df[i] EXCEPT !.bill_date = PdToDatetime(@)]]

\* Lines 72-75: the new rows whose file is not among the existing files.  The
\* mask compares each new row with the rows read from the sheet only.
FilterNew(existing, df_new) ==
    SelectSeq(df_new, LAMBDA r : r.file \notin {existing[i].file : i \in 1..Len(existing)})

\* append_rows_to_excel on a data sheet that is readable (exists) or not (the
\* workbook or the sheet is missing: lines 88-94 write df_new alone).
append_rows_to_excel(exists, sheet, new_rows) ==
    LET df_new == [i \in 1..Len(new_rows) |-> Enrich(new_rows[i])]
        existing == CoerceDates(sheet)
        df_new_filtered == FilterNew(existing, CoerceDates(df_new))
    IN  IF new_rows = <<>> THEN [exists |-> exists, sheet |-> sheet]
        ELSE IF ~exists THEN [exists |-> TRUE, sheet |-> df_new]
        ELSE IF existing = <<>> THEN [exists |-> TRUE, sheet |-> CoerceDates(df_new)]
        ELSE IF df_new_filtered = <<>> THEN [exists |-> TRUE, sheet |-> sheet]
        ELSE [exists |-> TRUE, sheet |-> existing \o df_new_filtered]

----------------------------------------------------------------------------
(* extract_atco_from_pdf, the due-by date (bill_extractors.py 81-140). *)

MONTHS_ABBR ==
    [a \in {"JAN", "FEB", "MAR", "APR", "MAY", "JUN",
            "JUL", "AUG", "SEP", "OCT", "NOV", "DEC"} |->
        CASE a = "JAN" -> "01" [] a = "FEB" -> "02" [] a = "MAR" -> "03"
          [] a = "APR" -> "04" [] a = "MAY" -> "05" [] a = "JUN" -> "06"
          [] a = "JUL" -> "07" [] a = "AUG" -> "08" [] a = "SEP" -> "09"
          [] a = "OCT" -> "10" [] a = "NOV" -> "11" [] a = "DEC" -> "12"]

\* str.upper() on the three-letter tokens of the model.
Upper(t) ==
    CASE t = "Jan" -> "JAN" [] t = "jan" -> "JAN" [] t = "Dec" -> "DEC"
      [] t = "xyz" -> "XYZ" [] OTHER -> t

\* int(mm) of a two-digit string.
IntOf(mm) == CHOOSE n \in 0..99 : Pad2(n) = mm

\* A variant of _get_previous_month without the year rollover of lines 102-103.
get_previous_month_without_rollover(month, year) == <<month - 1, year>>

\* _get_previous_month(month, year), lines 102-104.
get_previous_month(month, year) ==
    IF month = 1 THEN <<12, year - 1>> ELSE <<month - 1, year>>

\* No 'Total Amount Due By:' token in the text.
NoToken == [mon |-> "", day |-> 0, year |-> 0]

\* Lines 127-140: bill_date from the token "MON DD, YYYY" the regex captures.
AtcoBillDate(token) ==
    IF token = NoToken THEN NoDate
    ELSE IF Upper(token.mon) \notin DOMAIN MONTHS_ABBR THEN NoDate
    ELSE LET due_month == IntOf(MONTHS_ABBR[Upper(token.mon)])
             due_year == token.year
             prev == get_previous_month(due_month, due_year)
         IN  <<prev[2], prev[1], 1>>

----------------------------------------------------------------------------
(* House extraction (bill_extractors.py 45-54, 86-89, 116-118;                *)
(* extract_enmax.py 17-21, 39-41).                                           *)

\* A first-page text is a sequence of symbols: a digit, a space, a newline,
\* "AVE" (a street indicator of the pattern of line 50) or "SVC" (the label
\* SERVICE ADDRESS with what follows it up to and including the colon).  A
\* house of the roster is the sequence of its digits.
TextDigits == {"1", "5", "7"}

\* \s matches the symbol.
IsSpace(c) == c \in {" ", "\n"}

\* \w matches every character of the symbol, and the number of its characters.
IsWord(c) == c \in TextDigits \/ c = "AVE"
CharLen(c) == IF c = "AVE" THEN 3 ELSE 1

\* The symbol begins with a character \w matches (for \b).
BeginsWithWord(c) == c \in TextDigits \/ c \in {"AVE", "SVC"}

\* The literal `house` matches the text at position p.
LiteralAt(text, p, house) ==
    /\ p + Len(house) - 1 <= Len(text)
    /\ \A i \in 1..Len(house) : text[p + i - 1] = house[i]

\* Number of characters of the symbols text[a..b].
RECURSIVE CharsBetween(_, _, _)
CharsBetween(text, a, b) ==
    IF a > b THEN 0 ELSE CharLen(text[a]) + CharsBetween(text, a + 1, b)

\* A variant of SortedByLength that leaves the roster in its own order.
RosterOrder(houses) == houses

\* sorted(houses, key=len, reverse=True): longest first, houses of one length
\* in their roster order.
RECURSIVE SortedByLength(_)
SortedByLength(houses) ==
    IF houses = <<>> THEN <<>>
    ELSE LET i == CHOOSE i \in 1..Len(houses) :
                    /\ \A j \in 1..Len(houses) : Len(houses[j]) <= Len(houses[i])
                    /\ \A j \in 1..(i - 1) : Len(houses[j]) < Len(houses[i])
         IN  <<houses[i]>> \o
             SortedByLength(SubSeq(houses, 1, i - 1) \o SubSeq(houses, i + 1, Len(houses)))

\* First element of the sequence alts that satisfies Matches, or <<>> (None).
FirstAlt(alts, Matches(_)) ==
    IF \E i \in 1..Len(alts) : Matches(alts[i])
    THEN alts[CHOOSE i \in 1..Len(alts) :
                  Matches(alts[i]) /\ \A j \in 1..(i - 1) : ~Matches(alts[j])]
    ELSE <<>>

\* re.search of rf'({house})\w{{0,4}}(?:AVE|ST|...)' finds a match, line 50-51.
StreetMatch(text, house) ==
    \E p \in 1..Len(text), q \in 1..Len(text) :
        /\ LiteralAt(text, p, house)
        /\ q >= p + Len(house)
        /\ text[q] = "AVE"
        /\ \A i \in (p + Len(house))..(q - 1) : IsWord(text[i])
        /\ CharsBetween(text, p + Len(house), q - 1) <= 4

\* The loop of lines 47-54 of bill_extractors.py.
EnmaxStreetHouse(houses, text) ==
    FirstAlt(SortedByLength(houses), LAMBDA h : StreetMatch(text, h))

\* Position after the run of \s* that starts at p.
RECURSIVE SkipSpace(_, _)
SkipSpace(text, p) ==
    IF p <= Len(text) /\ IsSpace(text[p]) THEN SkipSpace(text, p + 1) ELSE p

\* group(1) of the leftmost match of a pattern that, from a start position
\* Starts holds for, runs \s* and then the alternation alts (Ends holding for
\* what must follow the house); <<>> when nothing matches.
SearchHouse(text, alts, Starts(_), Ends(_)) ==
    LET MatchAt(p, h) == /\ Starts(p)
                         /\ LiteralAt(text, SkipSpace(text, p), h)
                         /\ Ends(SkipSpace(text, p) + Len(h))
        Hit(p) == \E i \in 1..Len(alts) : MatchAt(p, alts[i])
    IN  IF \E p \in 1..(Len(text) + 1) : Hit(p)
        THEN LET p == CHOOSE p \in 1..(Len(text) + 1) :
                          Hit(p) /\ \A o \in 1..(p - 1) : ~Hit(o)
             IN  FirstAlt(alts, LAMBDA h : MatchAt(p, h))
        ELSE <<>>

\* make_service_address_regex(houses).search(text), extract_enmax.py 17-21 and
\* 39-41: SERVICE\s*ADDRESS[^:\n]{0,80}:\s*(alts), nothing required after.
EnmaxServiceAddressHouse(houses, text) ==
    SearchHouse(text, SortedByLength(houses),
                LAMBDA p : p > 1 /\ text[p - 1] = "SVC",
                LAMBDA e : TRUE)

\* make_house_line_regex(houses).search(text), bill_extractors.py 86-89 and
\* 116-118: (?mi)^\s*(alts)\b.
AtcoLineHouse(houses, text) ==
    SearchHouse(text, SortedByLength(houses),
                LAMBDA p : p = 1 \/ text[p - 1] = "\n",
                LAMBDA e : e > Len(text) \/ ~BeginsWithWord(text[e]))

----------------------------------------------------------------------------
(* normalize_row on a record of any field types (data_processing.py 16-54).  *)

\* A Python value: t is its type ("None", "str", "int", "float", "obj" for a
\* value of any other type, "missing" for a key the dict does not hold), s the
\* characters of a str, n the value of an int, the hundredths of a float, and
\* for an obj 1 when it is truthy (a non-empty list) and 0 when falsy.
PyVal(t, s, n) == [t |-> t, s |-> s, n |-> n]
PyNone == PyVal("None", <<>>, 0)
PyMissing == PyVal("missing", <<>>, 0)
PyStr(s) == PyVal("str", s, 0)
PyInt(n) == PyVal("int", <<>>, n)
PyFloat(n) == PyVal("float", <<>>, n)
PyObj(n) == PyVal("obj", <<>>, n)

\* out.get(key): None for a key the dict does not hold.
DictGet(x) == IF x.t = "missing" THEN PyNone ELSE x

\* bool(x), as `x or ""` tests it.
Truthy(x) ==
    CASE x.t = "str" -> x.s # <<>>
      [] x.t \in {"int", "float", "obj"} -> x.n # 0
      [] OTHER -> FALSE

Digits == <<"0", "1", "2", "3", "4", "5", "6", "7", "8", "9">>
IsDigit(c) == \E i \in 1..10 : Digits[i] = c
DigitValue(c) == (CHOOSE i \in 1..10 : Digits[i] = c) - 1
AllDigits(s) == \A i \in 1..Len(s) : IsDigit(s[i])

\* int(s) for a string of decimal digits.
RECURSIVE DigitsToInt(_)
DigitsToInt(s) ==
    IF s = <<>> THEN 0
    ELSE 10 * DigitsToInt(SubSeq(s, 1, Len(s) - 1)) + DigitValue(s[Len(s)])

\* f"{n:02d}" and f"{n:04d}".
Format02d(n) ==
    IF n < 100 THEN <<Digits[(n \div 10) + 1], Digits[(n % 10) + 1]>>
    ELSE <<Digits[(n \div 100) + 1], Digits[((n \div 10) % 10) + 1], Digits[(n % 10) + 1]>>
Format04d(n) ==
    <<Digits[(n \div 1000) + 1], Digits[((n \div 100) % 10) + 1],
      Digits[((n \div 10) % 10) + 1], Digits[(n % 10) + 1]>>

\* str.strip(): leading and trailing whitespace removed.
RECURSIVE Strip(_)
Strip(s) ==
    IF s # <<>> /\ IsSpace(s[1]) THEN Strip(Tail(s))
    ELSE IF s # <<>> /\ IsSpace(s[Len(s)]) THEN Strip(SubSeq(s, 1, Len(s) - 1))
    ELSE s

\* A variant of UpperChars that leaves the letters as they are.
UpperCharsUnchanged(s) == s

\* str.upper() on a sequence of characters: every lowercase letter replaced
\* by its capital.
LowerLetters == <<"a", "c", "e", "k", "l", "m", "n", "o", "s", "t", "u", "w", "x">>
UpperLetters == <<"A", "C", "E", "K", "L", "M", "N", "O", "S", "T", "U", "W", "X">>
UpperChars(s) ==
    [i \in 1..Len(s) |->
        IF \E k \in 1..Len(LowerLetters) : LowerLetters[k] = s[i]
        THEN UpperLetters[CHOOSE k \in 1..Len(LowerLetters) : LowerLetters[k] = s[i]]
        ELSE s[i]]

KnownVendors == {<<"E", "N", "M", "A", "X">>, <<"A", "T", "C", "O">>}

\* A variant of UnknownTag spelled in lowercase.
UnknownTagLowercase == <<"u", "n", "k", "n", "o", "w", "n">>

\* The tag of line 25 for a vendor that is empty after trimming.
UnknownTag == <<"U", "N", "K", "N", "O", "W", "N">>

\* What a step of normalize_row yields: the new value of the field, or the
\* exception the step raises.
Field(v) == [raised |-> FALSE, exc |-> "none", v |-> v]
Raises(exc) == [raised |-> TRUE, exc |-> exc, v |-> PyNone]

\* (x or "").strip(): str.strip of a string; a truthy value of another type
\* has no strip attribute.
OrEmptyStrip(x) ==
    IF ~Truthy(x) THEN Field(PyStr(<<>>))
    ELSE IF x.t = "str" THEN Field(PyStr(Strip(x.s)))
    ELSE Raises("AttributeError")

\* Lines 20-25.
normalize_vendor(x) ==
    LET r == OrEmptyStrip(DictGet(x))
        v == UpperChars(r.v.s)
    IN  IF r.raised THEN r
        ELSE IF v \in KnownVendors THEN Field(PyStr(v))
        ELSE Field(PyStr(IF v # <<>> THEN v ELSE UnknownTag))

\* float(s) of a string: digits, optionally a point and up to two digits,
\* surrounding whitespace ignored; PyNone stands for ValueError.
StrToFloat(s) ==
    LET t == Strip(s)
        HasPoint == \E i \in 1..Len(t) : t[i] = "."
        dot == IF HasPoint THEN CHOOSE i \in 1..Len(t) : t[i] = "." ELSE Len(t) + 1
        whole == SubSeq(t, 1, dot - 1)
        frac == SubSeq(t, dot + 1, Len(t))
    IN  IF whole # <<>> /\ AllDigits(whole) /\ AllDigits(frac) /\ Len(frac) <= 2
        THEN PyFloat(100 * DigitsToInt(whole) +
                     (IF Len(frac) = 1 THEN 10 ELSE 1) * DigitsToInt(frac))
        ELSE PyNone

\* Lines 28-32: float(amt) unless amt is None or "", None on any exception.
normalize_amount(x) ==
    LET amt == DictGet(x)
    IN  CASE amt.t = "None" -> PyNone
          [] amt.t = "str" -> IF amt.s = <<>> THEN PyNone ELSE StrToFloat(amt.s)
          [] amt.t = "int" -> PyFloat(100 * amt.n)
          [] amt.t = "float" -> amt
          [] OTHER -> PyNone

\* re.fullmatch(r"\d{4}-\d{2}-\d{2}", s), line 36.
IsIsoDate(s) ==
    /\ Len(s) = 10
    /\ \A i \in {1, 2, 3, 4, 6, 7, 9, 10} : IsDigit(s[i])
    /\ s[5] = "-" /\ s[8] = "-"

\* re.fullmatch(r"(\d{4})[/-](\d{1,2})[/-](\d{1,2})", s) and the string of
\* line 43; <<>> when the pattern does not match.
CoerceDate(s) ==
    LET Sep(i) == i <= Len(s) /\ s[i] \in {"/", "-"}
        Ok(a, b) == /\ Len(s) >= 5 /\ AllDigits(SubSeq(s, 1, 4)) /\ Sep(5)
                    /\ a \in 1..2 /\ b \in 1..2 /\ Len(s) = 6 + a + b
                    /\ AllDigits(SubSeq(s, 6, 5 + a)) /\ Sep(6 + a)
                    /\ AllDigits(SubSeq(s, 7 + a, 6 + a + b))
    IN  IF \E a, b \in 1..2 : Ok(a, b)
        THEN LET a == CHOOSE a \in 1..2 : \E b \in 1..2 : Ok(a, b)
                 y == DigitsToInt(SubSeq(s, 1, 4))
                 mo == DigitsToInt(SubSeq(s, 6, 5 + a))
                 d == DigitsToInt(SubSeq(s, 7 + a, Len(s)))
             IN  Format04d(y) \o <<"-">> \o Format02d(mo) \o <<"-">> \o Format02d(d)
        ELSE <<>>

\* Lines 35-45.
normalize_date(x) ==
    LET r == OrEmptyStrip(DictGet(x))
        date_str == r.v.s
    IN  IF r.raised THEN r
        ELSE IF IsIsoDate(date_str) THEN Field(PyStr(date_str))
        ELSE IF CoerceDate(date_str) # <<>> THEN Field(PyStr(CoerceDate(date_str)))
        ELSE Field(PyNone)

\* Lines 48-52: int(house), the value left as it is on any exception.
normalize_house(x) ==
    LET house == DictGet(x)
    IN  CASE house.t = "str" ->
                 IF Strip(house.s) # <<>> /\ AllDigits(Strip(house.s))
                 THEN PyInt(DigitsToInt(Strip(house.s)))
                 ELSE house
          [] house.t = "int" -> house
          [] house.t = "float" -> PyInt(house.n \div 100)
          [] OTHER -> house

\* normalize_row(row) for a row of any field types: the dict returned, or the
\* exception that leaves the function (the vendor step runs first, the date
\* step third).
normalize_row_any(row) ==
    LET v == normalize_vendor(row.vendor)
        d == normalize_date(row.bill_date)
    IN  IF v.raised THEN [raised |-> TRUE, exc |-> v.exc, out |-> row]
        ELSE IF d.raised THEN [raised |-> TRUE, exc |-> d.exc, out |-> row]
        ELSE [raised |-> FALSE, exc |-> "none",
              out |-> [vendor |-> v.v,
                       bill_amount |-> normalize_amount(row.bill_amount),
                       bill_date |-> d.v,
                       house_number |-> normalize_house(row.house_number)]]

----------------------------------------------------------------------------
(* detect_vendor_from_pdf (vendor_detection.py 12-36). *)

\* The first-page text is a sequence of symbols: a spelling of the domain
\* token or of the statement-date label, the bare word "enmax", a space, a
\* newline or a letter.  text.upper(), line 21, symbol by symbol.
TextUpper(text) ==
    [i \in 1..Len(text) |->
        CASE text[i] \in {"Enmax.com", "enmax.com"} -> "ENMAX.COM"
          [] text[i] \in {"Statement Date:", "statement date:"} -> "STATEMENT DATE:"
          [] text[i] = "enmax" -> "ENMAX"
          [] text[i] = "x" -> "X"
          [] OTHER -> text[i]]

\* marker in text, for a marker that is one symbol.
Contains(text, marker) == \E i \in 1..Len(text) : text[i] = marker

\* not text.strip(), line 18.
IsBlank(text) == \A i \in 1..Len(text) : IsSpace(text[i])

\* A variant of VendorMarkers that tests the statement-date label first.
VendorMarkersStatementFirst ==
    <<[marker |-> "STATEMENT DATE:", vendor |-> "ATCO"],
      [marker |-> "ENMAX.COM", vendor |-> "ENMAX"]>>

\* The if/elif chain of lines 24-27, in its order.
VendorMarkers ==
    <<[marker |-> "ENMAX.COM", vendor |-> "ENMAX"],
      [marker |-> "STATEMENT DATE:", vendor |-> "ATCO"]>>

\* The result of the call: the vendor returned, or the ValueError raised with
\* the parts of its message.
Detected(vendor) == [raised |-> FALSE, vendor |-> vendor, message |-> <<>>]
DetectFails(message) == [raised |-> TRUE, vendor |-> "none", message |-> message]

\* detect_vendor_from_pdf(filename, folder) on a document whose first page
\* reads as pdf.text, or whose reading raises when pdf.readable is FALSE.
detect_vendor_from_pdf(filename, pdf) ==
    LET text_upper == TextUpper(pdf.text)
        Hit(i) == Contains(text_upper, VendorMarkers[i].marker)
    IN  IF ~pdf.readable
        THEN DetectFails(<<"Error reading PDF for vendor detection: ", filename,
                           " - ", "Stream has ended unexpectedly">>)
        ELSE IF IsBlank(pdf.text)
        THEN DetectFails(<<"Error reading PDF for vendor detection: ", filename,
                           " - ", "No text could be extracted from PDF: ", filename>>)
        ELSE IF \E i \in 1..Len(VendorMarkers) : Hit(i)
        THEN Detected(VendorMarkers[CHOOSE i \in 1..Len(VendorMarkers) :
                                        Hit(i) /\ \A j \in 1..(i - 1) : ~Hit(j)].vendor)
        ELSE DetectFails(<<"Could not determine vendor from PDF content: ", filename,
                           ". Neither ENMAX.COM nor 'STATEMENT DATE:' found in text.">>)

----------------------------------------------------------------------------
(* The amounts of create_email_draft (email_drafts.py 56, 70, 128-135).      *)

\* Amounts are integers: base_rent and total_utilities in cents, the computed
\* amounts in hundredths of a cent (the product of a whole percentage and a
\* whole number of cents is a whole number of hundredths of a cent).

\* A variant of utility_share_amount that takes the percentage as the factor.
utility_share_amount_without_division(utility_share_percent, total_utilities) ==
    utility_share_percent * total_utilities * 100

\* utility_share_amount = (utility_share_percent / 100) * total_utilities,
\* line 134, in hundredths of a cent.
utility_share_amount(utility_share_percent, total_utilities) ==
    utility_share_percent * total_utilities

\* final_amount = base_rent + utility_share_amount, line 135, in hundredths of
\* a cent.
final_amount(base_rent, utility_share_percent, total_utilities) ==
    base_rent * 100 + utility_share_amount(utility_share_percent, total_utilities)

\* f"{x:.2f}" of the float computed for x hundredths of a cent, as the cents
\* shown.  The float differs from x by far less than a hundredth of a cent,
\* so the digits shown are those of the nearest cent; when x lies exactly
\* halfway between two cents the rounding error of the float arithmetic
\* decides, and either neighbour can be shown.
Format2f(x) ==
    IF x % 100 = 50 THEN {x \div 100, (x \div 100) + 1}
    ELSE {(x + 50) \div 100}

----------------------------------------------------------------------------
(* The rent date and the subject of create_email_draft (email_drafts.py      *)
(* 137-152, 168-181).                                                        *)

\* strftime("%B") of month m, and the month strptime(..., "%B") reads (0 when
\* the word is no month name and strptime raises).
MONTH_NAMES ==
    <<"January", "February", "March", "April", "May", "June", "July",
      "August", "September", "October", "November", "December">>
MonthOfName(word) ==
    IF \E m \in 1..12 : MONTH_NAMES[m] = word
    THEN CHOOSE m \in 1..12 : MONTH_NAMES[m] = word
    ELSE NoMonth

\* dt + timedelta(days=n) and dt - timedelta(days=n), a day at a time.
RECURSIVE PlusDays(_, _)
PlusDays(dt, n) ==
    IF n = 0 THEN dt
    ELSE PlusDays(IF dt[3] < DaysInMonth(dt[1], dt[2]) THEN <<dt[1], dt[2], dt[3] + 1>>
                  ELSE IF dt[2] < 12 THEN <<dt[1], dt[2] + 1, 1>>
                  ELSE <<dt[1] + 1, 1, 1>>,
                  n - 1)
RECURSIVE MinusDays(_, _)
MinusDays(dt, n) ==
    IF n = 0 THEN dt
    ELSE MinusDays(IF dt[3] > 1 THEN <<dt[1], dt[2], dt[3] - 1>>
                   ELSE IF dt[2] > 1 THEN <<dt[1], dt[2] - 1, DaysInMonth(dt[1], dt[2] - 1)>>
                   ELSE <<dt[1] - 1, 12, 31>>,
                   n - 1)

\* dt.replace(day=1).
ReplaceDay1(dt) == <<dt[1], dt[2], 1>>

\* Lines 138-152: the words of rent_date.  When strptime raises on month_date
\* the bare except leaves the string month_date itself, one word.
RentDate(month_date) ==
    IF ValidDate(month_date)
    THEN LET next_month_dt == ReplaceDay1(PlusDays(ReplaceDay1(month_date), 32))
         IN  <<MONTH_NAMES[next_month_dt[2]], "01">>
    ELSE <<IntToStr(month_date[1]) \o "-" \o Pad2(month_date[2])
               \o "-" \o Pad2(month_date[3])>>

\* A variant of Subject that names the month of the rent date.
SubjectOfRentMonth(rent_date) == rent_date[1] \o " utility bill"

\* Lines 169-181: msg['Subject'] from rent_date.split()[0] read in the year
\* 2025; the month of the rent date itself when strptime raises.
Subject(rent_date) ==
    LET m == MonthOfName(rent_date[1])
    IN  IF m # NoMonth
        THEN LET bill_month_dt == ReplaceDay1(MinusDays(<<2025, m, 1>>, 1))
             IN  MONTH_NAMES[bill_month_dt[2]] \o " utility bill"
        ELSE rent_date[1] \o " utility bill"

----------------------------------------------------------------------------
(* The amount of the two extractors (bill_extractors.py 56-60, 120-124).     *)

\* A text is a sequence of symbols, each a sequence of strings: a label, "$",
\* ":", a space or a newline as one string, a numeric token as its characters.
IsLabelOf(sym, labels) == Len(sym) = 1 /\ sym[1] \in labels
IsSymbol(sym, c) == sym = <<c>>

\* Labels of the two patterns in the spellings of the model (re.IGNORECASE).
EnmaxAmountLabels == {"PreAuthorizedAmount", "totalcurrentcharges"}
AtcoAmountLabels == {"TOTAL AMOUNT DUE", "Amount Due"}

\* The characters the number pattern matches at the start of the token:
\* [\d]+\.\d{2} (commas FALSE) or [\d,]+\.\d{2} (commas TRUE); <<>> when it
\* does not match there.
NumberMatch(sym, commas) ==
    LET InClass(c) == IsDigit(c) \/ (commas /\ c = ",")
        Run(n) == /\ n >= 1 /\ n + 3 <= Len(sym)
                  /\ \A i \in 1..n : InClass(sym[i])
                  /\ sym[n + 1] = "."
                  /\ IsDigit(sym[n + 2]) /\ IsDigit(sym[n + 3])
    IN  IF \E n \in 1..Len(sym) : Run(n)
        THEN SubSeq(sym, 1, (CHOOSE n \in 1..Len(sym) : Run(n)) + 3)
        ELSE <<>>

\* Position after the run of whitespace symbols that starts at p.
RECURSIVE SkipBlank(_, _)
SkipBlank(text, p) ==
    IF p <= Len(text) /\ (IsSymbol(text[p], " ") \/ IsSymbol(text[p], "\n"))
    THEN SkipBlank(text, p + 1) ELSE p

\* Position after an optional symbol c at p.
SkipOne(text, p, c) == IF p <= Len(text) /\ IsSymbol(text[p], c) THEN p + 1 ELSE p

\* The characters matched at position p, <<>> past the end of the text.
NumberAt(text, p, commas) ==
    IF p <= Len(text) THEN NumberMatch(text[p], commas) ELSE <<>>

\* group(2) of the search of lines 56-59: from a label, .*?\$ runs within the
\* line to the nearest "$" after which \s*([\d]+\.\d{2}) matches; the
\* leftmost label that has such a "$" wins.  <<>> when nothing matches.
EnmaxAmountMatch(text) ==
    LET Dollar(p, d) == /\ d > p /\ d <= Len(text) /\ IsSymbol(text[d], "$")
                        /\ \A i \in (p + 1)..(d - 1) : ~IsSymbol(text[i], "\n")
                        /\ NumberAt(text, SkipBlank(text, d + 1), FALSE) # <<>>
        Hit(p) == /\ IsLabelOf(text[p], EnmaxAmountLabels)
                  /\ \E d \in 1..Len(text) : Dollar(p, d)
    IN  IF \E p \in 1..Len(text) : Hit(p)
        THEN LET p == CHOOSE p \in 1..Len(text) : Hit(p) /\ \A o \in 1..(p - 1) : ~Hit(o)
                 d == CHOOSE d \in 1..Len(text) :
                          Dollar(p, d) /\ \A o \in 1..(d - 1) : ~Dollar(p, o)
             IN  NumberAt(text, SkipBlank(text, d + 1), FALSE)
        ELSE <<>>

\* group(1) of the search of lines 120-123: after a label \s*:?\s*\$?\s* and
\* then ([\d,]+\.\d{2}); the leftmost label so followed wins.
AtcoAmountMatch(text) ==
    LET After(p) == SkipBlank(text, SkipOne(text, SkipBlank(text,
                        SkipOne(text, SkipBlank(text, p + 1), ":")), "$"))
        Hit(p) == /\ IsLabelOf(text[p], AtcoAmountLabels)
                  /\ NumberAt(text, After(p), TRUE) # <<>>
    IN  IF \E p \in 1..Len(text) : Hit(p)
        THEN LET p == CHOOSE p \in 1..Len(text) : Hit(p) /\ \A o \in 1..(p - 1) : ~Hit(o)
             IN  NumberAt(text, After(p), TRUE)
        ELSE <<>>

\* str.replace(",", "").
RECURSIVE RemoveCommas(_)
RemoveCommas(s) ==
    IF s = <<>> THEN <<>>
    ELSE (IF s[1] = "," THEN <<>> ELSE <<s[1]>>) \o RemoveCommas(Tail(s))

\* bill_amount of extract_enmax_from_pdf (line 60) and of
\* extract_atco_from_pdf (line 124): a string or None.
EnmaxBillAmount(text) ==
    IF EnmaxAmountMatch(text) # <<>> THEN PyStr(EnmaxAmountMatch(text)) ELSE PyNone
AtcoBillAmount(text) ==
    IF AtcoAmountMatch(text) # <<>> THEN PyStr(RemoveCommas(AtcoAmountMatch(text)))
    ELSE PyNone

----------------------------------------------------------------------------
(* Inputs of the model. *)

\* Records of the shape process_single_file returns (main.py 152-158): the
\* house an int, the amount a number or '', the date a string normalize_row
\* lets through (its pattern \d{4}-\d{2}-\d{2} admits 2025-02-30).
BillHouses == {HouseInt(819), HouseInt(1705)}
BillVendors == {"ENMAX", "ATCO"}
BillAmounts == {EmptyAmount, 12345}
BillDates == {<<2025, 1, 10>>, <<2025, 3, 20>>, <<2025, 2, 30>>}

BillRecords ==
    [house_number : BillHouses, bill_amount : BillAmounts,
     bill_date : BillDates, vendor : BillVendors]

Batches == UNION {[1..n -> BillRecords] : n \in 0..MaxBills}

\* custom_month arguments and values of datetime.now().year.
CustomMonths == {NoMonth, 2}
CurrentYears == {2024, 2025}

\* Documents of the raw folder: bill1.pdf, bill2.pdf, ... in sorted order.
FileName(i) == "bill" \o IntToStr(i) \o ".pdf"

DocContents ==
    [vendor : {"ENMAX", "NONE"},
     house_number : {NoHouse, HouseStr("1705")},
     bill_amount : {EmptyAmount, 12345},
     bill_date : {NoDate, <<2025, 1, 10>>}]

Doc(i, c) ==
    [file |-> FileName(i), vendor |-> c.vendor, house_number |-> c.house_number,
     bill_amount |-> c.bill_amount, bill_date |-> c.bill_date]

Folders ==
    UNION {{[i \in 1..n |-> Doc(i, cs[i])] : cs \in [1..n -> DocContents]} : n \in 0..MaxDocs}

\* Rows handed to append_rows_to_excel.
StoreFiles == {"a.pdf", "b.pdf"}
StoreRows ==
    [file : StoreFiles, house_number : {HouseInt(1705)}, bill_amount : {12345},
     bill_date : {<<2025, 1, 10>>, <<2025, 2, 30>>}, vendor : {"ENMAX"}]
RowBatches == UNION {[1..n -> StoreRows] : n \in 0..MaxRows}

\* Due-by tokens of a layout-B text.
AtcoMonths ==
    {"JAN", "FEB", "MAR", "APR", "MAY", "JUN", "JUL", "AUG", "SEP", "OCT", "NOV", "DEC",
     "Jan", "jan", "Dec", "xyz"}
AtcoYears == 2023..2026
AtcoTokens == [mon : AtcoMonths, day : {1, 28}, year : AtcoYears] \cup {NoToken}

----------------------------------------------------------------------------
(* Initial states. *)

DraftIdle ==
    /\ processed_bills = <<>> /\ custom_month = NoMonth /\ test_mode = FALSE
    /\ caller = "none" /\ pc = "idle" /\ gen_status = "none"
    /\ todo = <<>> /\ drafts = <<>> /\ transport = <<>> /\ stdout = <<>>

MainIdle ==
    /\ main_pc = "idle" /\ pdf_files = <<>> /\ next_file = 1 /\ rows = <<>>
    /\ raw_folder = {} /\ processed_folder = {} /\ images_folder = {}
    /\ rename_files = FALSE /\ log = <<>>

StoreIdle ==
    /\ store_exists = FALSE /\ store = <<>> /\ calls = 0
    /\ last_call = [before |-> <<>>, rows |-> <<>>, existed |-> FALSE]

AtcoIdle == atco_text = NoToken /\ atco_out = [done |-> FALSE, bill_date |-> NoDate]

\* config.py as imported: both caches empty (lines 18-19), nothing called.
ConfigIdle ==
    /\ config_cache = <<>> /\ tenant_cache = <<>>
    /\ config_reads = 0 /\ config_loaded = FALSE
    /\ config_result = [call |-> "none", raised |-> FALSE, value |-> <<>>]

\* No function is being checked on its own.
FnIdle == fn_input = <<>> /\ fn_output = <<>>

\* generate_email_drafts called with a batch.
InitDirect ==
    /\ processed_bills \in Batches
    /\ custom_month = NoMonth /\ test_mode = FALSE
    /\ caller = "direct" /\ pc = "start" /\ gen_status = "none"
    /\ todo = <<>> /\ drafts = <<>> /\ transport = <<>> /\ stdout = <<>>
    /\ MainIdle /\ StoreIdle /\ AtcoIdle /\ ConfigIdle /\ FnIdle

\* main() started on a raw folder.
InitMain ==
    /\ pdf_files \in Folders
    /\ main_pc = "start" /\ next_file = 1 /\ rows = <<>>
    /\ raw_folder = {pdf_files[i].file : i \in 1..Len(pdf_files)}
    /\ processed_folder = {} /\ images_folder = {}
    /\ rename_files \in BOOLEAN /\ log = <<>>
    /\ DraftIdle /\ StoreIdle /\ AtcoIdle /\ ConfigIdle /\ FnIdle

Init == InitDirect \/ InitMain

InitExcel ==
    /\ store_exists \in BOOLEAN /\ store = <<>> /\ calls = 0
    /\ last_call = [before |-> <<>>, rows |-> <<>>, existed |-> FALSE]
    /\ DraftIdle /\ MainIdle /\ AtcoIdle /\ ConfigIdle /\ FnIdle

InitAtco ==
    /\ atco_text \in AtcoTokens
    /\ atco_out = [done |-> FALSE, bill_date |-> NoDate]
    /\ DraftIdle /\ MainIdle /\ StoreIdle /\ FnIdle /\ ConfigIdle

----------------------------------------------------------------------------
(* Actions of generate_email_drafts. *)

\* Lines 357-383: the prologue and the call of _group_bills_by_house.  main
\* calls generate_email_drafts(rows); another caller chooses test_mode and
\* custom_month.  The environment gives the setting, the credentials and the year.
GenerateStart ==
    /\ pc = "start"
    /\ \E arg \in (IF caller = "main" THEN {"None"} ELSE {"None", "True", "False"}),
          setting \in {"True", "False", "missing"},
          credentials \in BOOLEAN,
          month \in (IF caller = "main" THEN {NoMonth} ELSE CustomMonths),
          year \in CurrentYears :
        LET tm == ResolveTestMode(arg, setting)
            g == group_bills_by_house(processed_bills, month, year)
        IN  /\ test_mode' = tm
            /\ custom_month' = month
            /\ IF ~tm /\ ~credentials
               THEN /\ gen_status' = "no_credentials" /\ todo' = <<>> /\ pc' = "return"
                    /\ stdout' = <<Line("Error: YAHOO_USER and YAHOO_APP_PASSWORD required", "")>>
               ELSE IF processed_bills = <<>>
               THEN /\ gen_status' = "no_bills" /\ todo' = <<>> /\ pc' = "return"
                    /\ stdout' = <<Line("No bills to process for email generation", "")>>
               ELSE IF g.raised
               THEN /\ gen_status' = "group_error" /\ todo' = <<>> /\ pc' = "return"
                    /\ stdout' = <<Line("Error generating email drafts", "")>>
               ELSE /\ gen_status' = "grouped" /\ todo' = g.result /\ pc' = "loop"
                    /\ stdout' = <<>>
    /\ UNCHANGED <<processed_bills, caller, drafts, transport>>
    /\ UNCHANGED <<main_vars, store_vars, atco_vars, config_vars, fn_vars>>

\* One iteration of the loop of lines 386-404, for the next bundle: the
\* total, the vendor breakdown, create_email_draft and _send_or_print_draft.
\* The environment gives the images that exist and the outcome of the IMAP append.
ProcessHouse ==
    /\ pc = "loop" /\ todo # <<>>
    /\ LET b == Head(todo)
           total_utilities == SumAmounts(b.bills)
           vendor_breakdown == VendorBreakdown(b.bills)
       IN  \E exists \in SUBSET CandidateImages(b.house, b.bills), saved \in BOOLEAN :
             LET d == create_email_draft(b.house, b.month_date, total_utilities,
                                         vendor_breakdown, b.bills, exists)
                 t == send_or_print_draft(d.msg, b.house, test_mode, saved)
                 delivery == IF d.raised THEN "skipped"
                             ELSE IF test_mode THEN "printed"
                             ELSE IF t.ok THEN "saved" ELSE "failed"
             IN  /\ drafts' = Append(drafts,
                        [house |-> b.house, month_date |-> b.month_date,
                         bills |-> b.bills, total |-> total_utilities,
                         vendor_breakdown |-> vendor_breakdown,
                         exists |-> exists, built |-> ~d.raised,
                         error |-> d.error, msg |-> d.msg, delivery |-> delivery])
                 /\ transport' = IF d.raised THEN transport ELSE transport \o t.attempts
                 /\ stdout' = stdout \o <<Line("Processing", b.house)>>
                                     \o (IF d.raised THEN <<Line("Skipping", b.house)>>
                                         ELSE t.lines)
    /\ todo' = Tail(todo)
    /\ UNCHANGED <<processed_bills, custom_month, test_mode, caller, pc, gen_status>>
    /\ UNCHANGED <<main_vars, store_vars, atco_vars, config_vars, fn_vars>>

\* generate_email_drafts returns: from its prologue (lines 368, 372, 412) or
\* after the loop (lines 406-409).  In main, output_results(rows) follows
\* (main.py 190-192): append_rows_to_excel on the rows of the run.
GenerateReturn ==
    /\ pc = "return" \/ (pc = "loop" /\ todo = <<>>)
    /\ pc' = "returned"
    /\ gen_status' = IF pc = "loop" THEN "finished" ELSE gen_status
    /\ IF caller = "main"
       THEN LET r == append_rows_to_excel(store_exists, store, rows)
            IN  /\ store_exists' = r.exists /\ store' = r.sheet
                /\ calls' = calls + 1
                /\ last_call' = [before |-> store, rows |-> rows, existed |-> store_exists]
                /\ main_pc' = "done"
       ELSE UNCHANGED <<store_vars, main_pc>>
    /\ UNCHANGED <<processed_bills, custom_month, test_mode, caller, todo, drafts,
                   transport, stdout>>
    /\ UNCHANGED <<pdf_files, next_file, rows, raw_folder, processed_folder,
                   images_folder, rename_files, log, atco_vars, config_vars, fn_vars>>

----------------------------------------------------------------------------
(* Actions of main. *)

\* main.py 169-177.
MainStart ==
    /\ main_pc = "start"
    /\ IF pdf_files = <<>>
       THEN /\ main_pc' = "done"
            /\ log' = Append(log, [level |-> "info", text |-> "No PDFs found", unit |-> ""])
       ELSE main_pc' = "loop" /\ log' = log
    /\ UNCHANGED <<pdf_files, next_file, rows, raw_folder, processed_folder,
                   images_folder, rename_files>>
    /\ UNCHANGED <<draft_vars, store_vars, atco_vars, config_vars, fn_vars>>

\* One iteration of the loop of main.py 179-183: process_single_file(filename).
\* The environment decides whether the image conversion and os.replace succeed.
MainProcessFile ==
    /\ main_pc = "loop" /\ next_file <= Len(pdf_files)
    /\ \E image_ok \in BOOLEAN, move_ok \in BOOLEAN :
        LET doc == pdf_files[next_file]
            r == process_single_file(doc, TRUE, image_ok, move_ok, rename_files)
        IN  /\ rows' = IF r.returned THEN Append(rows, r.row) ELSE rows
            /\ raw_folder' = IF r.moved THEN raw_folder \ {doc.file} ELSE raw_folder
            /\ processed_folder' = IF r.moved THEN processed_folder \cup {r.target}
                                   ELSE processed_folder
            /\ images_folder' = images_folder \cup r.image
            /\ log' = log \o r.log
    /\ next_file' = next_file + 1
    /\ UNCHANGED <<main_pc, pdf_files, rename_files>>
    /\ UNCHANGED <<draft_vars, store_vars, atco_vars, config_vars, fn_vars>>

\* main.py 185-194: with rows, generate_email_drafts(rows) is called (and
\* output_results follows its return); without, main ends.
MainAfterLoop ==
    /\ main_pc = "loop" /\ next_file > Len(pdf_files)
    /\ IF rows # <<>>
       THEN /\ main_pc' = "drafts"
            /\ processed_bills' = rows /\ caller' = "main" /\ pc' = "start"
            /\ log' = log
       ELSE /\ main_pc' = "done"
            /\ log' = Append(log, [level |-> "info", text |-> "No valid bills processed",
                                   unit |-> ""])
            /\ UNCHANGED <<processed_bills, caller, pc>>
    /\ UNCHANGED <<custom_month, test_mode, gen_status, todo, drafts, transport, stdout>>
    /\ UNCHANGED <<pdf_files, next_file, rows, raw_folder, processed_folder,
                   images_folder, rename_files>>
    /\ UNCHANGED <<store_vars, atco_vars, config_vars, fn_vars>>

Next ==
    \/ GenerateStart
    \/ ProcessHouse
    \/ GenerateReturn
    \/ MainStart
    \/ MainProcessFile
    \/ MainAfterLoop

Spec == Init /\ [][Next]_vars

----------------------------------------------------------------------------
(* Calls of append_rows_to_excel on the record store. *)

AppendRows ==
    /\ calls < MaxCalls
    /\ \E new_rows \in RowBatches :
        LET r == append_rows_to_excel(store_exists, store, new_rows)
        IN  /\ store_exists' = r.exists /\ store' = r.sheet
            /\ last_call' = [before |-> store, rows |-> new_rows, existed |-> store_exists]
    /\ calls' = calls + 1
    /\ UNCHANGED <<draft_vars, main_vars, atco_vars, config_vars, fn_vars>>

NextExcel == AppendRows

SpecExcel == InitExcel /\ [][NextExcel]_vars

----------------------------------------------------------------------------
(* extract_atco_from_pdf on a text. *)

ExtractAtco ==
    /\ ~atco_out.done
    /\ atco_out' = [done |-> TRUE, bill_date |-> AtcoBillDate(atco_text)]
    /\ UNCHANGED <<atco_text, draft_vars, main_vars, store_vars, fn_vars, config_vars>>

NextAtco == ExtractAtco

SpecAtco == InitAtco /\ [][NextAtco]_vars

----------------------------------------------------------------------------
(* The house extraction on a roster and a text. *)

\* Two houses of a roster, the first a proper prefix of the second.
HouseShort == <<"1", "7">>
HouseLong == <<"1", "7", "5">>
Rosters == {<<HouseShort, HouseLong>>, <<HouseLong, HouseShort>>}

TextSymbols == TextDigits \cup {" ", "\n", "AVE", "SVC"}
Texts == UNION {[1..n -> TextSymbols] : n \in 0..MaxText}

InitHouse ==
    /\ fn_input \in [houses : Rosters, text : Texts]
    /\ fn_output = <<>>
    /\ DraftIdle /\ MainIdle /\ StoreIdle /\ AtcoIdle /\ ConfigIdle

ExtractHouse ==
    /\ fn_output = <<>>
    /\ fn_output' = [street |-> EnmaxStreetHouse(fn_input.houses, fn_input.text),
                     service |-> EnmaxServiceAddressHouse(fn_input.houses, fn_input.text),
                     line |-> AtcoLineHouse(fn_input.houses, fn_input.text)]
    /\ UNCHANGED <<fn_input, draft_vars, main_vars, store_vars, atco_vars, config_vars>>

NextHouse == ExtractHouse

SpecHouse == InitHouse /\ [][NextHouse]_vars

----------------------------------------------------------------------------
(* normalize_row applied to a record, and again to what it returned. *)

VendorValues ==
    {PyMissing, PyNone, PyInt(5), PyObj(0), PyObj(1)} \cup
    {PyStr(s) : s \in {<<>>, <<" ">>, <<"E", "N", "M", "A", "X">>, <<" ", "E", "n", "m", "a", "x", " ">>, <<"a", "t", "c", "o">>,
                       <<"t", "e", "l", "u", "s">>, <<"U", "N", "K", "N", "O", "W", "N">>, <<" ", "u", "n", "k", "n", "o", "w", "n", "\n">>}}

AmountValues ==
    {PyMissing, PyNone, PyInt(0), PyInt(12), PyFloat(12345), PyObj(1)} \cup
    {PyStr(s) : s \in {<<>>, <<"1", "2", "3", ".", "4", "5">>, <<" ", "7", ".", "5", " ">>, <<"1", "2">>, <<"1", "2", "a">>}}

DateValues ==
    {PyMissing, PyNone, PyInt(0), PyInt(20250110), PyObj(1)} \cup
    {PyStr(s) : s \in {<<>>, <<"2", "0", "2", "5", "-", "0", "1", "-", "1", "0">>, <<" ", "2", "0", "2", "5", "-", "0", "2", "-", "3", "0", "\n">>,
                       <<"2", "0", "2", "5", "/", "1", "/", "5">>, <<"2", "0", "2", "5", "-", "1", "2", "/", "3", "1">>, <<"2", "0", "2", "5", "-", "1", "-">>,
                       <<"2", "0", "2", "5", "0", "1", "1", "0">>, <<"1", "/", "5", "/", "2", "0", "2", "5">>}}

HouseValues ==
    {PyMissing, PyNone, PyInt(819), PyFloat(170550), PyObj(1)} \cup
    {PyStr(s) : s \in {<<>>, <<"1", "7", "0", "5">>, <<" ", "8", "1", "9", " ">>, <<"1", "7", "a">>}}

InitNormalize ==
    /\ fn_input \in [vendor : VendorValues, bill_amount : AmountValues,
                     bill_date : DateValues, house_number : HouseValues]
    /\ fn_output = <<>>
    /\ DraftIdle /\ MainIdle /\ StoreIdle /\ AtcoIdle /\ ConfigIdle

\* normalize_row(row), and normalize_row of the dict it returned.
Normalize ==
    /\ fn_output = <<>>
    /\ LET first == normalize_row_any(fn_input)
       IN  fn_output' = [first |-> first,
                         second |-> IF first.raised THEN first
                                    ELSE normalize_row_any(first.out)]
    /\ UNCHANGED <<fn_input, draft_vars, main_vars, store_vars, atco_vars, config_vars>>

NextNormalize == Normalize

SpecNormalize == InitNormalize /\ [][NextNormalize]_vars

----------------------------------------------------------------------------
(* detect_vendor_from_pdf applied to a document. *)

PageSymbols ==
    {"Enmax.com", "ENMAX.COM", "statement date:", "STATEMENT DATE:",
     "enmax", " ", "x"}
PageTexts == UNION {[1..n -> PageSymbols] : n \in 0..MaxPage}

InitDetect ==
    /\ fn_input \in [filename : {"a.pdf", "b.pdf"},
                     pdf : [readable : BOOLEAN, text : PageTexts]]
    /\ fn_output = <<>>
    /\ DraftIdle /\ MainIdle /\ StoreIdle /\ AtcoIdle /\ ConfigIdle

DetectVendor ==
    /\ fn_output = <<>>
    /\ fn_output' = detect_vendor_from_pdf(fn_input.filename, fn_input.pdf)
    /\ UNCHANGED <<fn_input, draft_vars, main_vars, store_vars, atco_vars, config_vars>>

NextDetect == DetectVendor

SpecDetect == InitDetect /\ [][NextDetect]_vars

----------------------------------------------------------------------------
(* The final amount of a draft, computed and shown. *)

\* Bundle totals and base rents in cents (tenant data of config.py 108-135).
TotalsInCents == {0, 5, 150, 12345, 19134, 24690}
BaseRentsInCents == {0, 115000, 120000}

InitAmount ==
    /\ fn_input \in [total_utilities : TotalsInCents, base_rent : BaseRentsInCents,
                     utility_share_percent : 0..100]
    /\ fn_output = <<>>
    /\ DraftIdle /\ MainIdle /\ StoreIdle /\ AtcoIdle /\ ConfigIdle

\* Lines 134-135 and the ${final_amount:.2f} of the template.
ComputeAmount ==
    /\ fn_output = <<>>
    /\ LET x == final_amount(fn_input.base_rent, fn_input.utility_share_percent,
                             fn_input.total_utilities)
       IN  \E shown \in Format2f(x) :
               fn_output' = [final_amount |-> x, shown |-> shown]
    /\ UNCHANGED <<fn_input, draft_vars, main_vars, store_vars, atco_vars, config_vars>>

NextAmount == ComputeAmount

SpecAmount == InitAmount /\ [][NextAmount]_vars

----------------------------------------------------------------------------
(* The rent date and the subject computed for a month_date. *)

\* Every date of three years (2024 a leap year), and two strings strptime
\* rejects.
MonthDates ==
    {d \in (2023..2025) \X (1..12) \X (1..31) : d[3] <= DaysInMonth(d[1], d[2])}
    \cup {<<2025, 2, 30>>, <<2025, 13, 1>>}

InitRentDate ==
    /\ fn_input \in [month_date : MonthDates]
    /\ fn_output = <<>>
    /\ DraftIdle /\ MainIdle /\ StoreIdle /\ AtcoIdle /\ ConfigIdle

ComputeRentDate ==
    /\ fn_output = <<>>
    /\ fn_output' = [rent_date |-> RentDate(fn_input.month_date),
                     subject |-> Subject(RentDate(fn_input.month_date))]
    /\ UNCHANGED <<fn_input, draft_vars, main_vars, store_vars, atco_vars, config_vars>>

NextRentDate == ComputeRentDate

SpecRentDate == InitRentDate /\ [][NextRentDate]_vars

----------------------------------------------------------------------------
(* generate_email_drafts on a batch of houses of the default policy, whose   *)
(* drafts need the ENMAX image only.                                         *)

SentHouses == {HouseInt(819), HouseInt(1712)}
SentRecords ==
    [house_number : SentHouses, bill_amount : {12345},
     bill_date : {<<2025, 1, 10>>, <<2025, 3, 20>>}, vendor : {"ENMAX"}]
SentBatches == UNION {[1..n -> SentRecords] : n \in 0..MaxSent}

InitTransport ==
    /\ processed_bills \in SentBatches
    /\ custom_month = NoMonth /\ test_mode = FALSE
    /\ caller = "direct" /\ pc = "start" /\ gen_status = "none"
    /\ todo = <<>> /\ drafts = <<>> /\ transport = <<>> /\ stdout = <<>>
    /\ MainIdle /\ StoreIdle /\ AtcoIdle /\ ConfigIdle /\ FnIdle

NextTransport ==
    \/ GenerateStart
    \/ ProcessHouse
    \/ GenerateReturn

SpecTransport == InitTransport /\ [][NextTransport]_vars

----------------------------------------------------------------------------
(* The amount extraction of a layout on a text, and normalize_row's          *)
(* conversion of what it yields.                                             *)

NumberTokens == {<<"1", ",", "2", "3", "4", ".", "5", "6">>, <<"5", "0", ".", "0", "0">>, <<"7", ".", "5">>}
AmountSymbols(layout) ==
    {<<c>> : c \in (IF layout = "A" THEN EnmaxAmountLabels ELSE AtcoAmountLabels)
                   \cup {"$", ":", " ", "\n"}}
    \cup NumberTokens
AmountTexts(layout) == UNION {[1..n -> AmountSymbols(layout)] : n \in 0..MaxLine}

InitExtractAmount ==
    /\ \E layout \in {"A", "B"} :
           fn_input \in [layout : {layout}, text : AmountTexts(layout)]
    /\ fn_output = <<>>
    /\ DraftIdle /\ MainIdle /\ StoreIdle /\ AtcoIdle /\ ConfigIdle

ExtractAmount ==
    /\ fn_output = <<>>
    /\ LET bill_amount == IF fn_input.layout = "A"
                          THEN EnmaxBillAmount(fn_input.text)
                          ELSE AtcoBillAmount(fn_input.text)
       IN  fn_output' = [bill_amount |-> bill_amount,
                         normalized |-> normalize_amount(bill_amount)]
    /\ UNCHANGED <<fn_input, draft_vars, main_vars, store_vars, atco_vars, config_vars>>

NextExtractAmount == ExtractAmount

SpecExtractAmount == InitExtractAmount /\ [][NextExtractAmount]_vars

----------------------------------------------------------------------------
(* Notions the properties are stated in. *)

\* The houses a batch names, as the strings bundles are keyed by.
HousesOf(bills) == {Str(bills[i].house_number) : i \in 1..Len(bills)}

\* The eligible records of house h in a batch: date and amount both present.
EligibleOf(bills, h) ==
    SelectSeq(bills, LAMBDA b : /\ Str(b.house_number) = h
                                /\ b.bill_date # NoDate
                                /\ b.bill_amount # EmptyAmount)

\* The members a bundle holds for a sequence of records.
MembersFrom(recs) ==
    [i \in 1..Len(recs) |->
        [vendor |-> recs[i].vendor, amount |-> recs[i].bill_amount, date |-> recs[i].bill_date]]

\* The positions of the bundles of house h in a grouping result.
BundlesOf(result, h) == {i \in 1..Len(result) : result[i].house = h}

\* Every record of recs carries a real calendar date.
AllCalendarDates(recs) ==
    \A i \in 1..Len(recs) :
        /\ recs[i].bill_date[2] \in 1..12
        /\ recs[i].bill_date[3] \in 1..DaysInMonth(recs[i].bill_date[1], recs[i].bill_date[2])

\* The month-end of the calendar month of date d.
MonthEndOf(d) == <<d[1], d[2], DaysInMonth(d[1], d[2])>>

\* The greatest month-end among records with calendar dates.
GreatestMonthEnd(recs) ==
    LET ends == {MonthEndOf(recs[i].bill_date) : i \in 1..Len(recs)}
    IN  CHOOSE k \in ends : \A o \in ends : o = k \/ DateLess(o, k)

\* The records of recs dated in the calendar month of month-end k.
InMonthOf(recs, k) ==
    SelectSeq(recs, LAMBDA b : b.bill_date[1] = k[1] /\ b.bill_date[2] = k[2])

\* The values of a finite function added up.
RECURSIVE SumOfValues(_)
SumOfValues(f) ==
    IF DOMAIN f = {} THEN 0
    ELSE LET k == CHOOSE k \in DOMAIN f : TRUE
         IN  f[k] + SumOfValues([x \in (DOMAIN f) \ {k} |-> f[x]])

\* The amounts of the members of vendor v added up.
RECURSIVE AmountOfVendor(_, _)
AmountOfVendor(members, v) ==
    IF members = <<>> THEN 0
    ELSE (IF members[1].vendor = v THEN members[1].amount ELSE 0)
         + AmountOfVendor(Tail(members), v)

\* _group_bills_by_house has just been called: its result is whole in todo, or
\* it raised.
JustGrouped == gen_status \in {"grouped", "group_error"} /\ drafts = <<>>

----------------------------------------------------------------------------
(* Properties of generate_email_drafts. *)

\* C1: in every house bundle generate_email_drafts builds, in latest-month and
\* in fixed-month mode, the values of vendor_breakdown add up to the bundle's
\* total exactly.  (Violated: line 391 keeps one amount per vendor.)
C1_BreakdownSumsToTotal ==
    \A i \in 1..Len(drafts) :
        SumOfValues(drafts[i].vendor_breakdown) = drafts[i].total

\* C2: in every house bundle, vendor_breakdown has an entry for exactly the
\* vendors of the bundle, and the entry of vendor v is the sum of the amounts of
\* all members of vendor v: repeated vendors are added, never replaced by the
\* last.  (Violated: the dict comprehension of line 391 replaces.)
C2_BreakdownAddsRepeatedVendors ==
    \A i \in 1..Len(drafts) :
        LET d == drafts[i]
        IN  /\ DOMAIN d.vendor_breakdown = {d.bills[k].vendor : k \in 1..Len(d.bills)}
            /\ \A v \in DOMAIN d.vendor_breakdown :
                   d.vendor_breakdown[v] = AmountOfVendor(d.bills, v)

\* C3: in latest-month mode _group_bills_by_house returns, for every house of
\* the batch that has eligible records (all of them calendar dates), exactly
\* one bundle: its period is the greatest month-end among the house's eligible
\* records and its members are exactly the house's eligible records of that
\* calendar month, so records of older months are in no bundle.  (Violated:
\* one record of the batch with a date like 2025-02-30 makes the call raise,
\* and no house gets a bundle.)
C3_LatestMonthOneBundlePerHouse ==
    (custom_month = NoMonth /\ JustGrouped) =>
        \A h \in HousesOf(processed_bills) :
            LET e == EligibleOf(processed_bills, h)
            IN  (e # <<>> /\ AllCalendarDates(e)) =>
                    /\ Cardinality(BundlesOf(todo, h)) = 1
                    /\ \A i \in BundlesOf(todo, h) :
                           /\ todo[i].month_date = GreatestMonthEnd(e)
                           /\ todo[i].bills = MembersFrom(InMonthOf(e, GreatestMonthEnd(e)))

\* C4 (as amended): in fixed-month mode with month m, every house of the batch
\* that has at least one eligible record gets exactly one bundle, holding all
\* of its eligible records whatever their own dates; a house with no eligible
\* record gets no bundle; no other bundle exists; and every bundle's period-end
\* is the last day of month m of the current calendar year.
C4_FixedMonthPoolsEligibleRecords ==
    (custom_month # NoMonth /\ JustGrouped) =>
        /\ gen_status = "grouped"
        /\ \A h \in HousesOf(processed_bills) :
               LET e == EligibleOf(processed_bills, h)
               IN  IF e = <<>> THEN BundlesOf(todo, h) = {}
                   ELSE /\ Cardinality(BundlesOf(todo, h)) = 1
                        /\ \A i \in BundlesOf(todo, h) : todo[i].bills = MembersFrom(e)
        /\ \A i \in 1..Len(todo) : todo[i].house \in HousesOf(processed_bills)
        /\ \E year \in CurrentYears :
               \A i \in 1..Len(todo) :
                   todo[i].month_date = <<year, custom_month, DaysInMonth(year, custom_month)>>

\* C4, witness: house 819 with records dated 2025-01-10 and 2025-03-20 and
\* m = 2 has one February bundle holding both.
C4_Witness_JanuaryAndMarchPooled ==
    /\ custom_month = 2 /\ JustGrouped
    /\ \E i \in 1..Len(todo) :
           /\ todo[i].house = "819"
           /\ Len(todo[i].bills) = 2
           /\ todo[i].bills[1].date = <<2025, 1, 10>>
           /\ todo[i].bills[2].date = <<2025, 3, 20>>
           /\ todo[i].month_date[2] = 2
           /\ todo[i].month_date[3] \in {28, 29}

\* C4 (as first stated): in fixed-month mode every house of the batch gets
\* exactly one bundle holding all of its eligible records, with the period-end
\* the last day of month m of the current year.  (Violated: a house whose
\* records all lack an amount gets no bundle.)
C4_FixedMonthEveryHouseHasBundle ==
    (custom_month # NoMonth /\ JustGrouped) =>
        /\ \A h \in HousesOf(processed_bills) :
               /\ Cardinality(BundlesOf(todo, h)) = 1
               /\ \A i \in BundlesOf(todo, h) :
                      todo[i].bills = MembersFrom(EligibleOf(processed_bills, h))
        /\ \E year \in CurrentYears :
               \A i \in 1..Len(todo) :
                   todo[i].month_date = <<year, custom_month, DaysInMonth(year, custom_month)>>

\* C5: a record with house and date present and the amount missing passes
\* validation, adds to no bundle total and no vendor_breakdown entry, and is
\* part of the batch appended to the record store in the same run: when main
\* is done, the store holds a row for every document that classifies to a
\* vendor, has house and date, lacks the amount and was moved.  (Violated: the
\* call of line 117 of main.py raises for every document, so no record exists.)
C5_RecordWithoutAmountIsStored ==
    /\ \A j \in 1..Len(drafts) :
           /\ \A k \in 1..Len(drafts[j].bills) : drafts[j].bills[k].amount # EmptyAmount
           /\ \A v \in DOMAIN drafts[j].vendor_breakdown :
                  drafts[j].vendor_breakdown[v] # EmptyAmount
    /\ main_pc = "done" =>
           \A i \in 1..Len(pdf_files) :
               LET doc == pdf_files[i]
               IN  ( /\ doc.vendor # "NONE"
                     /\ doc.house_number # NoHouse
                     /\ doc.bill_date # NoDate
                     /\ doc.bill_amount = EmptyAmount
                     /\ ~\E l \in 1..Len(log) :
                            log[l].text = "Failed to move file" /\ log[l].unit = doc.file )
                   => \E k \in 1..Len(store) :
                          /\ Str(store[k].house_number) = Str(doc.house_number)
                          /\ store[k].bill_date = doc.bill_date
                          /\ store[k].bill_amount = EmptyAmount
                          /\ store[k].vendor = doc.vendor

\* C6: for a house whose policy lists required vendors, when a required vendor
\* has no attachment among the images present for the bundle (whatever subset
\* is present), create_email_draft fails with an error naming the house, the
\* period and the missing vendors, and no draft of that house reaches the
\* transport.
C6_MissingRequiredVendorFailsDraft ==
    \A i \in 1..Len(drafts) :
        LET d == drafts[i]
            required == SeqToSet(get_house_policy(d.house).required_vendors)
            missing == required \ {n.vendor : n \in d.exists}
        IN  missing # {} =>
                /\ ~d.built
                /\ d.delivery = "skipped"
                /\ d.error.exc = "ValueError"
                /\ d.error.text = "Missing required vendors"
                /\ d.error.house = d.house
                /\ d.error.month_date = d.month_date
                /\ SeqToSet(d.error.vendors) = missing
                /\ \A k \in 1..Len(transport) : transport[k].house # d.house

\* C6, witness: house 1705 with the ENMAX image present and the ATCO image
\* absent was iterated in live mode and its draft failed naming ATCO.
C6_Witness_OneOfTwoRequiredPresent ==
    /\ ~test_mode
    /\ \E i \in 1..Len(drafts) :
           /\ drafts[i].house = "1705"
           /\ \E n \in drafts[i].exists : n.vendor = "ENMAX"
           /\ ~\E n \in drafts[i].exists : n.vendor = "ATCO"
           /\ ~drafts[i].built
           /\ drafts[i].error.vendors = <<"ATCO">>

C8_FailuresIsolatedPerUnit ==
    /\ main_pc \in {"drafts", "done"} =>
           \A i \in 1..Len(pdf_files) :
               (~\E l \in 1..Len(log) :
                     log[l].level = "error" /\ log[l].unit = pdf_files[i].file)
               => \E k \in 1..Len(rows) :
                      /\ rows[k].vendor = pdf_files[i].vendor
                      /\ Str(rows[k].house_number) = Str(pdf_files[i].house_number)
                      /\ rows[k].bill_date = pdf_files[i].bill_date
    /\ (pc = "returned" /\ gen_status \in {"group_error", "finished"}) =>
           \A h \in HousesOf(processed_bills) :
               LET e == EligibleOf(processed_bills, h)
               IN  (e # <<>> /\ AllCalendarDates(e)) =>
                       \E i \in 1..Len(drafts) : drafts[i].house = h
    /\ \A i \in 1..Len(drafts) :
           (drafts[i].built /\ ~test_mode) =>
               \E k \in 1..Len(transport) : transport[k].house = drafts[i].house

----------------------------------------------------------------------------
(* Properties of the record store. *)

\* The number of rows of a sheet whose source identifier is f.
CountFile(sheet, f) == Cardinality({i \in 1..Len(sheet) : sheet[i].file = f})

\* C9: after any sequence of append_rows_to_excel calls, a new row whose
\* 'file' was already in the store was skipped by the latest call, no row that
\* was in the store before the call was changed or removed by it, and the
\* store never holds two rows with the same 'file'.  (Violated: two rows of one
\* batch with the same 'file' are both written.)
C9_StoreKeepsOneRowPerFile ==
    /\ calls > 0 =>
           /\ \A i \in 1..Len(last_call.before) :
                  CountFile(store, last_call.before[i].file)
                      = CountFile(last_call.before, last_call.before[i].file)
           /\ Len(store) >= Len(last_call.before)
           /\ SubSeq(store, 1, Len(last_call.before)) = last_call.before
    /\ \A f \in StoreFiles : CountFile(store, f) <= 1

----------------------------------------------------------------------------
(* Properties of the layout-B extraction. *)

\* The spellings of each month's abbreviation among the tokens of the model.
DueMonthSpellings ==
    <<{"JAN", "Jan", "jan"}, {"FEB"}, {"MAR"}, {"APR"}, {"MAY"}, {"JUN"},
      {"JUL"}, {"AUG"}, {"SEP"}, {"OCT"}, {"NOV"}, {"DEC", "Dec"}>>

\* C10: in the due-by variant of layout B, for every due month 1..12 and year
\* Y the extracted billing month is the calendar month just before the due
\* month: month m > 1 of Y gives month m-1 of Y, and January of Y gives
\* December of Y-1.
C10_BillingMonthPrecedesDueMonth ==
    atco_out.done =>
        \A m \in 1..12 :
            atco_text.mon \in DueMonthSpellings[m] =>
                atco_out.bill_date =
                    IF m = 1 THEN <<atco_text.year - 1, 12, 1>>
                    ELSE <<atco_text.year, m - 1, 1>>

\* C10, witness: a text due in January 2025 was extracted with billing month
\* December 2024.
C10_Witness_JanuaryWrapsToDecember ==
    /\ atco_out.done
    /\ atco_text.mon = "JAN" /\ atco_text.year = 2025
    /\ atco_out.bill_date = <<2024, 12, 1>>

----------------------------------------------------------------------------
(* Properties of the house extraction. *)

\* The digits of house h stand in the text from position p on.
HouseAt(text, p, h) ==
    /\ p >= 1 /\ p + Len(h) - 1 <= Len(text)
    /\ SubSeq(text, p, p + Len(h) - 1) = h

\* House h stands at p and a street indicator follows it after k digits.
BeforeStreetToken(text, p, h, k) ==
    /\ HouseAt(text, p, h)
    /\ p + Len(h) + k <= Len(text)
    /\ \A i \in 0..(k - 1) : text[p + Len(h) + i] \in TextDigits
    /\ text[p + Len(h) + k] = "AVE"

\* House h stands at q, and q is reached from the symbol at p by whitespace only.
AfterLabel(text, p, q, h) ==
    /\ q > p
    /\ \A i \in (p + 1)..(q - 1) : text[i] \in {" ", "\n"}
    /\ HouseAt(text, q, h)

\* C11: with a roster holding 17 and 175 (17 a proper prefix of 175, in either
\* roster order), a text in which 175 stands at the matching position yields
\* 175 and never 17: 175 before a street-suffix token for the street pattern,
\* 175 after the first service-address label for the service-address pattern,
\* 175 at the start of the first line for the house-line pattern; and where a
\* pattern does yield 17, the text does hold 17 at a matching position where
\* 175 does not stand.
C11_LongerHouseWinsOverItsPrefix ==
    fn_output # <<>> =>
        LET text == fn_input.text
            n == Len(HouseLong)
            Positions == 1..Len(text)
        IN  /\ (\E p \in Positions, k \in 0..1 : BeforeStreetToken(text, p, HouseLong, k))
                   => fn_output.street = HouseLong
            /\ fn_output.street = HouseShort
                   => /\ \E p \in Positions, k \in 0..4 :
                             BeforeStreetToken(text, p, HouseShort, k)
                      /\ ~\E p \in Positions, k \in 0..4 :
                             BeforeStreetToken(text, p, HouseLong, k)
            /\ \A p \in Positions :
                   (/\ text[p] = "SVC"
                    /\ \A o \in 1..(p - 1) : text[o] # "SVC"
                    /\ \E q \in Positions : AfterLabel(text, p, q, HouseLong))
                   => fn_output.service = HouseLong
            /\ fn_output.service = HouseShort
                   => \E p, q \in Positions :
                          /\ text[p] = "SVC"
                          /\ AfterLabel(text, p, q, HouseShort)
                          /\ ~HouseAt(text, q, HouseLong)
            /\ (/\ HouseAt(text, 1, HouseLong)
                /\ (Len(text) = n \/ text[n + 1] \in {" ", "\n"}))
                   => fn_output.line = HouseLong
            /\ fn_output.line = HouseShort
                   => \E q \in Positions :
                          /\ HouseAt(text, q, HouseShort)
                          /\ ~HouseAt(text, q, HouseLong)

\* C11, witness: with 17 listed before 175, the text "175AVE" gave 175 by the
\* street pattern, and the text "SVC 175" gave 175 by the service-address
\* pattern of the same roster.
C11_Witness_PrefixListedFirst ==
    /\ fn_output # <<>>
    /\ fn_input.houses = <<HouseShort, HouseLong>>
    /\ \/ /\ fn_input.text = <<"1", "7", "5", "AVE">>
          /\ fn_output.street = HouseLong
       \/ /\ fn_input.text = <<"SVC", " ", "1", "7", "5">>
          /\ fn_output.service = HouseLong

----------------------------------------------------------------------------
(* Properties of normalize_row. *)

\* The value is of the strict type of its field, or null.
VendorCoerced(x) == x.t = "str" /\ x.s # <<>>
AmountCoerced(x) == x.t \in {"float", "None"}
DateCoerced(x) == x.t = "None" \/ (x.t = "str" /\ IsIsoDate(x.s))
HouseCoerced(x) == x.t \in {"int", "None"}

\* C12: normalize_row never raises: whatever the type or value of the vendor,
\* bill_amount, bill_date and house_number of the input record (missing, null,
\* empty, string, number or other), it returns a record, and each field of
\* that record is coerced to its type or null.
C12_NormalizeNeverRaises ==
    fn_output # <<>> =>
        /\ ~fn_output.first.raised
        /\ VendorCoerced(fn_output.first.out.vendor)
        /\ AmountCoerced(fn_output.first.out.bill_amount)
        /\ DateCoerced(fn_output.first.out.bill_date)
        /\ HouseCoerced(fn_output.first.out.house_number)

\* C13: normalize_row is idempotent: for every input record on which it
\* returns, applying it to the record it returned returns, and gives the same
\* vendor, bill_amount, bill_date and house_number.
C13_NormalizeIdempotent ==
    (fn_output # <<>> /\ ~fn_output.first.raised) =>
        /\ ~fn_output.second.raised
        /\ \A f \in {"vendor", "bill_amount", "bill_date", "house_number"} :
               fn_output.second.out[f] = fn_output.first.out[f]

\* C13, witness: a record whose four fields all change in the first pass
\* (vendor trimmed and uppercased, amount parsed, date rewritten, house
\* parsed) came back unchanged from the second.
C13_Witness_EveryFieldCoercedOnce ==
    /\ fn_output # <<>>
    /\ fn_input.vendor = PyStr(<<" ", "E", "n", "m", "a", "x", " ">>)
    /\ fn_input.bill_amount = PyStr(<<" ", "7", ".", "5", " ">>)
    /\ fn_input.bill_date = PyStr(<<"2", "0", "2", "5", "/", "1", "/", "5">>)
    /\ fn_input.house_number = PyStr(<<" ", "8", "1", "9", " ">>)
    /\ fn_output.first.out = [vendor |-> PyStr(<<"E", "N", "M", "A", "X">>),
                              bill_amount |-> PyFloat(750),
                              bill_date |-> PyStr(<<"2", "0", "2", "5", "-", "0", "1", "-", "0", "5">>),
                              house_number |-> PyInt(819)]
    /\ fn_output.second = fn_output.first

\* The characters of the input vendor without surrounding whitespace (none for
\* a vendor that is no string).
TrimmedVendor ==
    LET s == fn_input.vendor.s
        Inner == {<<a, b>> \in (1..Len(s)) \X (1..Len(s)) :
                      /\ a <= b
                      /\ s[a] \notin {" ", "\n"} /\ s[b] \notin {" ", "\n"}
                      /\ \A i \in (1..(a - 1)) \cup ((b + 1)..Len(s)) : s[i] \in {" ", "\n"}}
    IN  IF Inner = {} THEN <<>>
        ELSE LET ab == CHOOSE ab \in Inner : TRUE IN SubSeq(s, ab[1], ab[2])

\* The two sequences spell the same word, letter case aside.
SameWord(s, t) ==
    /\ Len(s) = Len(t)
    /\ \A i \in 1..Len(s) :
           \/ s[i] = t[i]
           \/ \E k \in 1..Len(LowerLetters) :
                  {s[i], t[i]} = {LowerLetters[k], UpperLetters[k]}

\* No lowercase letter is in the sequence.
IsUppercase(s) ==
    \A i \in 1..Len(s) : \A k \in 1..Len(LowerLetters) : s[i] # LowerLetters[k]

----------------------------------------------------------------------------
(* Properties of the vendor detection. *)

\* The text holds the domain token of layout A, or the statement-date label of
\* layout B, in some spelling.
HasDomainToken(text) ==
    \E i \in 1..Len(text) : text[i] \in {"Enmax.com", "enmax.com", "ENMAX.COM"}
HasStatementLabel(text) ==
    \E i \in 1..Len(text) :
        text[i] \in {"Statement Date:", "statement date:", "STATEMENT DATE:"}

\* C15: detect_vendor_from_pdf applies its two markers whatever their letter
\* case, the domain token first: a readable text holding the domain token is
\* ENMAX even if it also holds the statement-date label, one holding only the
\* label is ATCO, and a document that is unreadable, or whose text is empty,
\* only whitespace or holds neither marker, makes the call raise an error
\* whose message names the document, no vendor being returned.
C15_MarkersInOrderOrErrorNamingDocument ==
    fn_output # <<>> =>
        LET text == fn_input.pdf.text
            Fails == /\ fn_output.raised
                     /\ fn_output.vendor = "none"
                     /\ \E i \in 1..Len(fn_output.message) :
                            fn_output.message[i] = fn_input.filename
        IN  IF ~fn_input.pdf.readable THEN Fails
            ELSE IF HasDomainToken(text)
            THEN ~fn_output.raised /\ fn_output.vendor = "ENMAX"
            ELSE IF HasStatementLabel(text)
            THEN ~fn_output.raised /\ fn_output.vendor = "ATCO"
            ELSE Fails

\* C15, witness: a text holding the statement-date label and, after it, the
\* domain token in mixed case was classified ENMAX.
C15_Witness_BothMarkersGiveEnmax ==
    /\ fn_output # <<>>
    /\ fn_input.pdf.readable
    /\ fn_input.pdf.text = <<"statement date:", " ", "Enmax.com">>
    /\ fn_output = Detected("ENMAX")

----------------------------------------------------------------------------
(* Properties of the final amount. *)

\* C16: for every bundle total and base rent (whole cents) and every utility
\* share percentage in 0..100, the final amount shown in the draft is
\* base_rent + utility_share_percent/100 * total at two decimals: it is a
\* whole number of cents within half a cent of that value, and equal to it
\* when the value is itself a whole number of cents; total 191.34, base rent
\* 1150 and 60% show 1264.80.
C16_FinalAmountAtTwoDecimals ==
    fn_output # <<>> =>
        LET tenthousandths ==
                10000 * (fn_input.base_rent \div 100)
                + 100 * (fn_input.base_rent % 100)
                + fn_input.utility_share_percent * fn_input.total_utilities
            diff == 100 * fn_output.shown - tenthousandths
        IN  /\ diff \in -50..50
            /\ tenthousandths % 100 = 0 => diff = 0
            /\ (/\ fn_input.total_utilities = 19134
                /\ fn_input.base_rent = 115000
                /\ fn_input.utility_share_percent = 60) => fn_output.shown = 126480

\* C16, witness: total 191.34, base rent 1150 and 60% were shown as 1264.80.
C16_Witness_Example126480 ==
    /\ fn_output # <<>>
    /\ fn_input = [total_utilities |-> 19134, base_rent |-> 115000,
                   utility_share_percent |-> 60]
    /\ fn_output.shown = 126480

----------------------------------------------------------------------------
(* Properties of the rent date and the subject. *)

\* The dates that end a billing period: the last day of a month.
IsPeriodEnd(d) ==
    /\ d[2] \in 1..12
    /\ d[3] = (CASE d[2] \in {4, 6, 9, 11} -> 30
                 [] d[2] = 2 -> IF d[1] \in {2024} THEN 29 ELSE 28
                 [] OTHER -> 31)

\* The name of the month after each month, and each month's own name.
FollowingMonth ==
    <<"February", "March", "April", "May", "June", "July", "August",
      "September", "October", "November", "December", "January">>
OwnMonth ==
    <<"January", "February", "March", "April", "May", "June", "July",
      "August", "September", "October", "November", "December">>

\* C17: for every billing period-end date (each of the 12 months, leap and
\* common years), the rent date of the draft is the name of the month that
\* follows the period and "01" (December gives January), and the subject is
\* the name of the period's own month followed by " utility bill".
C17_RentDateNextMonthSubjectOwnMonth ==
    (fn_output # <<>> /\ IsPeriodEnd(fn_input.month_date)) =>
        /\ fn_output.rent_date = <<FollowingMonth[fn_input.month_date[2]], "01">>
        /\ fn_output.subject = OwnMonth[fn_input.month_date[2]] \o " utility bill"

\* C17, witness: the period ending 2024-12-31 gave the rent date "January 01"
\* and the subject "December utility bill".
C17_Witness_DecemberGivesJanuary ==
    /\ fn_output # <<>>
    /\ fn_input.month_date = <<2024, 12, 31>>
    /\ fn_output.rent_date = <<"January", "01">>
    /\ fn_output.subject = "December utility bill"

----------------------------------------------------------------------------
(* Properties of a run of main: excluded documents. *)

\* The documents main has processed so far.
ProcessedDocs == {pdf_files[i] : i \in 1..(next_file - 1)}

\* The extraction of the document finds no house, or no bill date.
LacksHouseOrDate(doc) == doc.house_number = NoHouse \/ doc.bill_date = NoDate

\* The records of the run: returned by process_single_file, handed to the
\* aggregation, stored.
RunRecords ==
    {rows[i] : i \in 1..Len(rows)}
    \cup (IF caller = "main"
          THEN {processed_bills[i] : i \in 1..Len(processed_bills)} ELSE {})
    \cup {store[i] : i \in 1..Len(store)}

----------------------------------------------------------------------------
(* Properties of the transport. *)

\* The calls of save_draft_via_imap made for the house.
AttemptsFor(house) == {i \in 1..Len(transport) : transport[i].house = house}

\* C19: in one call of generate_email_drafts the transport is attempted at
\* most once per house draft and never again after a failure: exactly once
\* for each draft built outside test mode, whether or not an attempt for an
\* earlier house failed, and never for a house whose draft was not built; in
\* test mode it is attempted zero times and each draft built is only echoed
\* on standard output.
C19_TransportOncePerDraftNeverInTestMode ==
    /\ \A i, j \in 1..Len(transport) : transport[i].house = transport[j].house => i = j
    /\ \A k \in 1..Len(drafts) :
           Cardinality(AttemptsFor(drafts[k].house)) =
               IF drafts[k].built /\ ~test_mode THEN 1 ELSE 0
    /\ test_mode =>
           /\ transport = <<>>
           /\ \A k \in 1..Len(drafts) :
                  drafts[k].built =>
                      \E n \in 1..Len(stdout) :
                          stdout[n] = Line("TEST: Would create email draft", drafts[k].house)

\* C19, witness: outside test mode the attempt for the first house failed and
\* the attempt for the second house was made all the same, each house once.
C19_Witness_SecondHouseAttemptedAfterFailure ==
    /\ ~test_mode /\ Len(drafts) = 2 /\ Len(transport) = 2
    /\ transport[1].house = drafts[1].house /\ ~transport[1].ok
    /\ transport[2].house = drafts[2].house /\ transport[2].ok

----------------------------------------------------------------------------
(* Properties of the diagnostics. *)

\* Some printed line, or some log entry, names the unit.
Printed(unit) == \E n \in 1..Len(stdout) : stdout[n].unit = unit
Logged(unit) == \E n \in 1..Len(log) : log[n].unit = unit

\* The record is a member of a bundle the loop has gone through.
Aggregated(rec) ==
    \E k \in 1..Len(drafts) :
        /\ drafts[k].house = Str(rec.house_number)
        /\ \E n \in 1..Len(drafts[k].bills) :
               /\ drafts[k].bills[n].vendor = rec.vendor
               /\ drafts[k].bills[n].amount = rec.bill_amount
               /\ drafts[k].bills[n].date = rec.bill_date

\* A draft of the house was built and saved, or echoed in test mode.
Delivered(house) ==
    \E k \in 1..Len(drafts) :
        drafts[k].house = house /\ drafts[k].delivery \in {"saved", "printed"}

\* C20: every skip or failure of a run emits a diagnostic naming the unit:
\* once generate_email_drafts has gone through its loop and returned, each
\* record of the batch left out of every bundle and each house of the batch
\* without a delivered draft is named by a printed line; and each document
\* main processed that yields no record (no vendor, no house or no bill date)
\* is named by a log entry.
C20_EverySkipNamesItsUnit ==
    /\ (pc = "returned" /\ gen_status = "finished") =>
           \A i \in 1..Len(processed_bills) :
               LET rec == processed_bills[i]
               IN  /\ ~Aggregated(rec) => Printed(Str(rec.house_number))
                   /\ ~Delivered(Str(rec.house_number)) => Printed(Str(rec.house_number))
    /\ \A doc \in ProcessedDocs :
           (LacksHouseOrDate(doc) \/ doc.vendor = "NONE") => Logged(doc.file)

----------------------------------------------------------------------------
(* Properties of the amount extraction. *)

\* The cents a numeric token with two decimals stands for, separators aside.
TokenCents(sym) ==
    CASE sym = <<"1", ",", "2", "3", "4", ".", "5", "6">> -> 123456
      [] sym = <<"5", "0", ".", "0", "0">> -> 5000
      [] OTHER -> -1

\* The first symbol of the text is a label of its layout, and the numeric
\* token sym follows it after "$" at most.
LabelThenToken(sym) ==
    LET text == fn_input.text
    IN  /\ Len(text) >= 2
        /\ Len(text[1]) = 1
        /\ text[1][1] \in {"PreAuthorizedAmount", "totalcurrentcharges",
                           "TOTAL AMOUNT DUE", "Amount Due"}
        /\ text[2] = <<"$">> /\ Len(text) >= 3 /\ text[3] = sym

\* C21: in both layouts the amount extracted is the first numeric token with
\* two decimals after a label of the layout, thousands separators removed
\* before conversion: a text that begins with a label, "$" and 1,234.56 gives
\* 1234.56, and one with 50.00 there gives 50.00, in layout A as in layout B.
C21_AmountAfterLabelSeparatorsRemoved ==
    fn_output # <<>> =>
        \A sym \in {<<"1", ",", "2", "3", "4", ".", "5", "6">>, <<"5", "0", ".", "0", "0">>} :
            LabelThenToken(sym) => fn_output.normalized = PyFloat(TokenCents(sym))

----------------------------------------------------------------------------
(* Properties of a run of main: order of draft generation and record append. *)

\* The document classifies to a vendor and yields a house and a bill date.
Extractable(doc) == doc.vendor # "NONE" /\ ~LacksHouseOrDate(doc)

\* The move of the document failed.
MoveFailed(doc) ==
    \E l \in 1..Len(log) : log[l].text = "Failed to move file" /\ log[l].unit = doc.file

ExtractedAndValidated(doc) ==
    LET r == route_and_extract_call(ArgsPassed, doc)
    IN  ~r.raised /\ ~ValidationFails(r.data)

\* Documents the loop of main has processed so far.
Processed == 1..(next_file - 1)

\* The document is no longer in the raw folder.
MovedOut(doc) == doc.file \notin raw_folder

----------------------------------------------------------------------------
(* process_custom_bills (custom_bill_email.py 64-99): the documents of the
   custom_bill folder go through process_single_file with
   move_file_after=False.  raw_folder holds the names in the custom_bill
   folder, fn_input the document of the latest call and fn_output what
   process_single_file returned for it. *)

\* Months process_custom_bills is called with; validate_month accepts 1..12.
CustomBillMonths == {1, 13}

InitCustom ==
    /\ pdf_files \in Folders
    /\ custom_month \in CustomBillMonths
    /\ main_pc = "custom_start" /\ next_file = 1 /\ rows = <<>>
    /\ raw_folder = {pdf_files[i].file : i \in 1..Len(pdf_files)}
    /\ processed_folder = {} /\ images_folder = {}
    /\ rename_files \in BOOLEAN /\ log = <<>>
    /\ processed_bills = <<>> /\ test_mode = FALSE
    /\ caller = "none" /\ pc = "idle" /\ gen_status = "none"
    /\ todo = <<>> /\ drafts = <<>> /\ transport = <<>> /\ stdout = <<>>
    /\ StoreIdle /\ AtcoIdle /\ ConfigIdle /\ FnIdle

\* Lines 74-82: validate_month, the listing, the empty-folder return.
CustomStart ==
    /\ main_pc = "custom_start"
    /\ IF custom_month \notin 1..12
       THEN main_pc' = "custom_raised" /\ stdout' = stdout
       ELSE IF pdf_files = <<>>
       THEN /\ main_pc' = "custom_done"
            /\ stdout' = Append(stdout, Line("No PDFs found", ""))
       ELSE /\ main_pc' = "custom_loop"
            /\ stdout' = Append(stdout, Line("Found PDFs in custom_bill folder", ""))
    /\ UNCHANGED <<processed_bills, custom_month, test_mode, caller, pc, gen_status,
                   todo, drafts, transport>>
    /\ UNCHANGED <<pdf_files, next_file, rows, raw_folder, processed_folder,
                   images_folder, rename_files, log>>
    /\ UNCHANGED <<store_vars, atco_vars, config_vars, fn_vars>>

\* One iteration of the loop of lines 84-97; after the last one the list is
\* returned (line 99).
CustomProcessFile ==
    /\ main_pc = "custom_loop" /\ next_file <= Len(pdf_files)
    /\ \E image_ok \in BOOLEAN, move_ok \in BOOLEAN :
        LET doc == pdf_files[next_file]
            result == process_single_file(doc, FALSE, image_ok, move_ok, rename_files)
        IN  /\ fn_input' = doc
            /\ fn_output' = result
            /\ processed_bills' =
                   IF result.returned
                   THEN Append(processed_bills,
                               [house_number |-> result.row.house_number,
                                bill_date |-> result.row.bill_date,
                                bill_amount |-> result.row.bill_amount,
                                vendor |-> result.row.vendor,
                                date |-> result.row.bill_date])
                   ELSE processed_bills
            /\ raw_folder' = IF result.moved THEN raw_folder \ {doc.file} ELSE raw_folder
            /\ processed_folder' = IF result.moved THEN processed_folder \cup {result.target}
                                   ELSE processed_folder
            /\ images_folder' = images_folder \cup result.image
            /\ log' = IF result.returned
                      THEN log \o result.log
                      ELSE log \o result.log \o
                           <<[level |-> "warning", text |-> "Skipping - processing failed",
                              unit |-> doc.file]>>
    /\ next_file' = next_file + 1
    /\ main_pc' = IF next_file = Len(pdf_files) THEN "custom_done" ELSE "custom_loop"
    /\ UNCHANGED <<pdf_files, rows, rename_files>>
    /\ UNCHANGED <<custom_month, test_mode, caller, pc, gen_status, todo, drafts,
                   transport, stdout>>
    /\ UNCHANGED <<store_vars, atco_vars, config_vars>>

NextCustom ==
    \/ CustomStart
    \/ CustomProcessFile

SpecCustom == InitCustom /\ [][NextCustom]_vars

\* C24: process_single_file called with move_file_after=False neither renames
\* nor moves the document: every file of the source folder is still there
\* under its original name, nothing has been put in the processed folder, and
\* the record returned for a document that classifies to a vendor and has a
\* house and a bill date carries the original filename as its 'file',
\* whatever the rename setting.
C24_NotMovedRecordKeepsOriginalName ==
    /\ main_pc \in {"custom_loop", "custom_done"} =>
          /\ raw_folder = {pdf_files[i].file : i \in 1..Len(pdf_files)}
          /\ processed_folder = {}
    /\ fn_output # <<>> =>
          /\ ~fn_output.moved
          /\ fn_output.returned => fn_output.row.file = fn_input.file
          /\ Extractable(fn_input) =>
                fn_output.returned /\ fn_output.row.file = fn_input.file

----------------------------------------------------------------------------
(* Configuration caching (config.py 18-106, 137-142).  A dict is a function
   from its keys; the empty dict is << >>.  What the workbook holds when it is
   read is the environment's choice at each read. *)

MaxReads == 3

ConfigKeys == {"atco_indicator", "image_bottom_crop_px"}

\* Values the value column can hold for a key.
RawValues(key) ==
    IF key = "image_bottom_crop_px" THEN {"450", "abc"} ELSE {"statements", "invoices"}

\* The Config sheet as pd.read_excel finds it: unreadable, or a dict of raw values.
ConfigSheets ==
    {[ok |-> FALSE, rows |-> <<>>]} \cup
    {[ok |-> TRUE, rows |-> d] :
        d \in UNION {{f \in [D -> {"450", "abc", "statements", "invoices"}] :
                         \A k \in D : f[k] \in RawValues(k)} : D \in SUBSET ConfigKeys}}

\* The type conversion of lines 36-46: int() of the crop height raises on a
\* value that is not a number.
ConversionRaises(key, value) == key = "image_bottom_crop_px" /\ value = "abc"
Converted(key, value) ==
    IF key = "image_bottom_crop_px" THEN 450 ELSE value

\* _get_fallback_config, lines 59-70, on the keys of the model.
FallbackConfig == [k \in ConfigKeys |-> IF k = "image_bottom_crop_px" THEN 450 ELSE "statements"]

\* Line 25 and line 85: "if _config_cache:" is the truth value of the dict.
CacheHit(cache) == cache # <<>>

\* load_config(), lines 21-57, on a cache and the sheet a read would find:
\* the value returned, the cache afterwards, whether the sheet was read and
\* whether that read succeeded.
load_config(cache, sheet) ==
    IF CacheHit(cache)
    THEN [value |-> cache, cache |-> cache, read |-> FALSE, ok |-> FALSE]
    ELSE IF sheet.ok /\ \A k \in DOMAIN sheet.rows : ~ConversionRaises(k, sheet.rows[k])
    THEN LET config_dict == [k \in DOMAIN sheet.rows |-> Converted(k, sheet.rows[k])]
         IN  [value |-> config_dict, cache |-> config_dict, read |-> TRUE, ok |-> TRUE]
    ELSE [value |-> FallbackConfig, cache |-> cache, read |-> TRUE, ok |-> FALSE]

\* The Tenants sheet as read: unreadable, empty, or one tenant.
TenantSheets ==
    {[ok |-> FALSE, rows |-> <<>>], [ok |-> TRUE, rows |-> <<>>],
     [ok |-> TRUE, rows |-> [h \in {"1705"} |-> "Sheet Tenant"]]}

\* _get_fallback_tenant_data, lines 108-135.
FallbackTenants == [h \in {"819", "1705", "1707", "1712"} |-> TenantName(h)]

\* load_tenant_data(), lines 79-106.
load_tenant_data(cache, sheet) ==
    IF CacheHit(cache)
    THEN [value |-> cache, cache |-> cache]
    ELSE IF sheet.ok
    THEN [value |-> sheet.rows, cache |-> sheet.rows]
    ELSE [value |-> FallbackTenants, cache |-> cache]

InitConfig ==
    /\ ConfigIdle
    /\ DraftIdle /\ MainIdle /\ StoreIdle /\ AtcoIdle /\ FnIdle

\* A call of load_config().
LoadConfig ==
    /\ config_reads < MaxReads
    /\ \E sheet \in ConfigSheets :
        LET r == load_config(config_cache, sheet)
        IN  /\ config_cache' = r.cache
            /\ config_reads' = IF r.read THEN config_reads + 1 ELSE config_reads
            /\ config_loaded' = (config_loaded \/ r.ok)
            /\ config_result' = [call |-> "load_config", raised |-> FALSE, value |-> r.value]
    /\ UNCHANGED <<tenant_cache, draft_vars, main_vars, store_vars, atco_vars, fn_vars>>

\* A call of get_config(key), lines 72-77.
GetConfig ==
    /\ config_reads < MaxReads
    /\ \E sheet \in ConfigSheets, key \in ConfigKeys :
        LET r == load_config(config_cache, sheet)
        IN  /\ config_cache' = r.cache
            /\ config_reads' = IF r.read THEN config_reads + 1 ELSE config_reads
            /\ config_loaded' = (config_loaded \/ r.ok)
            /\ config_result' =
                   IF key \notin DOMAIN r.value
                   THEN [call |-> "get_config", raised |-> TRUE, value |-> <<>>]
                   ELSE [call |-> "get_config", raised |-> FALSE,
                         value |-> [k \in {key} |-> r.value[key]]]
    /\ UNCHANGED <<tenant_cache, draft_vars, main_vars, store_vars, atco_vars, fn_vars>>

\* A call of load_tenant_data().
LoadTenantData ==
    /\ config_reads < MaxReads
    /\ \E sheet \in TenantSheets :
        LET r == load_tenant_data(tenant_cache, sheet)
        IN  /\ tenant_cache' = r.cache
            /\ config_result' = [call |-> "load_tenant_data", raised |-> FALSE,
                                 value |-> r.value]
    /\ UNCHANGED <<config_cache, config_reads, config_loaded>>
    /\ UNCHANGED <<draft_vars, main_vars, store_vars, atco_vars, fn_vars>>

\* A call of reload_config(), lines 137-142: both caches are emptied, then
\* load_config() runs on the empty cache.
ReloadConfig ==
    /\ config_reads < MaxReads
    /\ \E sheet \in ConfigSheets :
        LET r == load_config(<<>>, sheet)
        IN  /\ config_cache' = r.cache
            /\ tenant_cache' = <<>>
            /\ config_reads' = IF r.read THEN config_reads + 1 ELSE config_reads
            /\ config_loaded' = r.ok
            /\ config_result' = [call |-> "reload_config", raised |-> FALSE,
                                 value |-> r.value]
    /\ UNCHANGED <<draft_vars, main_vars, store_vars, atco_vars, fn_vars>>

NextConfig ==
    \/ LoadConfig
    \/ GetConfig
    \/ LoadTenantData
    \/ ReloadConfig

SpecConfig == InitConfig /\ [][NextConfig]_vars

\* C25: once load_config has read the Config sheet successfully, a later
\* load_config or get_config call returns the cached values without reading
\* the sheet again, until reload_config is called; reload_config empties both
\* caches and its load reads the sheet again; a load that fails returns the
\* fallback values and leaves the cache empty.
C25_CachedUntilReload ==
    [][/\ (config_loaded /\ config_result'.call \in {"load_config", "get_config"})
           => /\ config_reads' = config_reads
              /\ config_cache' = config_cache
              /\ config_result'.call = "load_config" => config_result'.value = config_cache
       /\ config_result'.call = "reload_config"
           => /\ config_reads' = config_reads + 1
              /\ tenant_cache' = <<>>
              /\ config_cache' \in {<<>>, config_result'.value}
       /\ (config_reads' = config_reads + 1 /\ ~config_loaded')
           => /\ config_cache' = <<>>
              /\ config_result'.call = "get_config" \/ config_result'.value = FallbackConfig
      ]_vars

----------------------------------------------------------------------------
(* A house carried as an integer or as a string: _group_bills_by_house keys
   its bundles by str(bill['house_number']) (email_drafts.py 265, 292),
   _get_house_policy looks up str(house) (line 78) and create_email_draft
   calls get_tenant_data(str(house)) (line 128). *)

MaxSame == 2

\* House values as normalize_row leaves them (int) and as a caller that
\* skipped it carries them (str).
SameHouses == {HouseInt(819), HouseStr("819"), HouseInt(1705), HouseStr("1705")}
SameRecords ==
    [house_number : SameHouses, bill_amount : {12345}, bill_date : {<<2025, 1, 10>>},
     vendor : BillVendors]

InitSameHouse ==
    /\ fn_input \in [bills : UNION {[1..n -> SameRecords] : n \in 0..MaxSame},
                     custom_month : {NoMonth, 2}]
    /\ fn_output = <<>>
    /\ DraftIdle /\ MainIdle /\ StoreIdle /\ AtcoIdle /\ ConfigIdle

\* The bundles of the batch, and for every bundle the policy and the tenant
\* name its key resolves to.
GroupSameHouse ==
    /\ fn_output = <<>>
    /\ LET g == group_bills_by_house(fn_input.bills, fn_input.custom_month, 2025)
       IN  fn_output' =
               [raised |-> g.raised,
                bundles |-> g.result,
                policy |-> [i \in 1..Len(g.result) |-> get_house_policy(g.result[i].house)],
                tenant |-> [i \in 1..Len(g.result) |-> TenantName(g.result[i].house)]]
    /\ UNCHANGED <<fn_input, draft_vars, main_vars, store_vars, atco_vars, config_vars>>

NextSameHouse == GroupSameHouse

SpecSameHouse == InitSameHouse /\ [][NextSameHouse]_vars

\* The house number a house value stands for, whichever way it is carried.
NumberOfHouse(h) ==
    CASE h = HouseInt(819) \/ h = HouseStr("819") -> 819
      [] h = HouseInt(1705) \/ h = HouseStr("1705") -> 1705

\* The bundle that holds the i-th record of the batch (records keep their
\* order inside a bundle).
BundlesHolding(i) ==
    {b \in 1..Len(fn_output.bundles) :
        \E k \in 1..Len(fn_output.bundles[b].bills) :
            /\ fn_output.bundles[b].bills[k].vendor = fn_input.bills[i].vendor
            /\ Cardinality({j \in 1..i :
                   NumberOfHouse(fn_input.bills[j].house_number) =
                   NumberOfHouse(fn_input.bills[i].house_number)}) = k}

\* C26: a house carried as an integer and as the string of the same digits is
\* the same house: there is one bundle per house number of the batch, holding
\* all records of that number in order, and the bundle of house 1705 resolves
\* to the dual-vendor policy and the tenant of 1705 (819: the default policy
\* and the tenant of 819) whichever way its records carried the house.
C26_IntAndStringAreTheSameHouse ==
    fn_output # <<>> =>
        LET bills == fn_input.bills
            numbers == {NumberOfHouse(bills[i].house_number) : i \in 1..Len(bills)}
        IN  /\ ~fn_output.raised
            /\ Len(fn_output.bundles) = Cardinality(numbers)
            /\ \A n \in numbers :
                  \E b \in 1..Len(fn_output.bundles) :
                      /\ Len(fn_output.bundles[b].bills) =
                             Cardinality({i \in 1..Len(bills) :
                                             NumberOfHouse(bills[i].house_number) = n})
                      /\ \A i \in 1..Len(bills) :
                            NumberOfHouse(bills[i].house_number) = n => b \in BundlesHolding(i)
                      /\ fn_output.policy[b].template =
                             (IF n = 1705 THEN "dual_vendor" ELSE "single_vendor")
                      /\ fn_output.tenant[b] =
                             (IF n = 1705 THEN "Mike Chen" ELSE "Sarah Johnson")

\* One record carries 1705 as an integer and one as a string: one bundle of two.
C26_Witness_MixedCarriersOneBundle ==
    /\ fn_output # <<>>
    /\ Len(fn_input.bills) = 2
    /\ fn_input.bills[1].house_number = HouseInt(1705)
    /\ fn_input.bills[2].house_number = HouseStr("1705")
    /\ Len(fn_output.bundles) = 1
    /\ Len(fn_output.bundles[1].bills) = 2
    /\ fn_output.policy[1].template = "dual_vendor"

----------------------------------------------------------------------------
(* The name an image is stored under (file_helpers.py 82-83) and the name it
   is looked up under (email_drafts.py 94-97), as file names. *)

\* f"{y:04d}-{m:02d}-{d:02d}", the iso_date string of a record.
IsoDateString(d) == Pad4(d[1]) \o "-" \o Pad2(d[2]) \o "-" \o Pad2(d[3])

\* safe_filename(f"{house}_{iso_date}_{vendor}.png"): digits, letters, '_',
\* '-' and '.' are kept by safe_filename.
CreatedImageFile(house, iso_date, vendor) ==
    Str(house) \o "_" \o IsoDateString(iso_date) \o "_" \o vendor \o ".png"

\* f"{house} {bill_date[:7]} {vendor}.png"
LookedUpImageFile(house, bill_date, vendor) ==
    house \o " " \o Pad4(bill_date[1]) \o "-" \o Pad2(bill_date[2]) \o " " \o vendor \o ".png"

ImageHouses == {HouseInt(819), HouseInt(1705), HouseInt(1707), HouseInt(1712)}
ImageDates ==
    {<<2025, 1, 10>>, <<2025, 1, 1>>, <<2025, 12, 31>>, <<2024, 2, 29>>,
     <<2025, 3, 20>>, <<2025, 10, 5>>, <<2026, 6, 30>>}

InitImageName ==
    /\ fn_input \in [house_number : ImageHouses, bill_date : ImageDates,
                     vendor : BillVendors, bill_amount : {12345}]
    /\ fn_output = <<>>
    /\ DraftIdle /\ MainIdle /\ StoreIdle /\ AtcoIdle /\ ConfigIdle

\* create_pdf_image on the record, then find_house_utility_images on the
\* bundle made of this record, the images folder holding what was created.
CreateThenFindImage ==
    /\ fn_output = <<>>
    /\ LET house == Str(fn_input.house_number)
           created == CreatedImageName(fn_input.house_number, fn_input.bill_date,
                                       fn_input.vendor)
       IN  fn_output' =
               [created |-> CreatedImageFile(fn_input.house_number, fn_input.bill_date,
                                             fn_input.vendor),
                looked_up |-> LookedUpImageFile(house, fn_input.bill_date, fn_input.vendor),
                found |-> find_house_utility_images(
                              house, bill_date_to_month_end(fn_input.bill_date),
                              <<BillEntry(fn_input)>>, {created})]
    /\ UNCHANGED <<fn_input, draft_vars, main_vars, store_vars, atco_vars, config_vars>>

NextImageName == CreateThenFindImage

SpecImageName == InitImageName /\ [][NextImageName]_vars

\* C27: the name create_pdf_image stores a record's image under is the name
\* find_house_utility_images looks up for that record, so a house whose one
\* required vendor's record had its image created finds that image.
C27_CreatedNameIsLookedUpName ==
    fn_output # <<>> =>
        /\ fn_output.created = fn_output.looked_up
        /\ get_house_policy(Str(fn_input.house_number)).required_vendors = <<fn_input.vendor>>
              => /\ ~fn_output.found.raised
                 /\ Len(fn_output.found.image_paths) = 1

----------------------------------------------------------------------------
(* The bill date of a layout-A document from its text to the month-end key:
   extract_enmax_from_pdf (bill_extractors.py 62-69), normalize_row
   (data_processing.py 34-45), validate_data (main.py 41-47) and
   bill_date_to_month_end (config.py 188-200). *)

\* MONTHS[mon.lower()], bill_extractors.py 24-27.
MONTHS(mon) == Format02d(MonthOfName(mon))

\* Lines 62-69 on the CurrentBillDate token (\d{4})(month name)(\d{1,2}).
EnmaxBillDate(token) ==
    token.year \o <<"-">> \o MONTHS(token.mon) \o <<"-">> \o Format02d(DigitsToInt(token.day))

\* datetime.strptime(s, "%Y-%m-%d") on a string of the form dddd-dd-dd: the
\* (year, month, day) it reads.
ReadIsoDate(s) ==
    <<DigitsToInt(SubSeq(s, 1, 4)), DigitsToInt(SubSeq(s, 6, 7)),
      DigitsToInt(SubSeq(s, 9, 10))>>

EnmaxDateTokens ==
    [year : {<<"2", "0", "2", "4">>, <<"2", "0", "2", "5">>},
     mon : {MONTH_NAMES[m] : m \in 1..12},
     day : {<<"1">>, <<"0", "9">>, <<"2", "8">>, <<"2", "9">>, <<"3", "0">>, <<"3", "1">>,
            <<"0">>, <<"9", "9">>}]

InitBillDate ==
    /\ fn_input \in EnmaxDateTokens
    /\ fn_output = <<>>
    /\ DraftIdle /\ MainIdle /\ StoreIdle /\ AtcoIdle /\ ConfigIdle

\* The date through extraction, normalize_row and validate_data, and then the
\* month-end computation of _group_bills_by_house on it.
BillDateToMonthEnd ==
    /\ fn_output = <<>>
    /\ LET extracted == EnmaxBillDate(fn_input)
           normalized == normalize_date(PyStr(extracted))
           passes == ~normalized.raised /\ Truthy(normalized.v)
           d == ReadIsoDate(normalized.v.s)
       IN  fn_output' =
               [bill_date |-> normalized.v,
                validated |-> passes,
                month_end |-> IF ~passes THEN [raised |-> FALSE, key |-> NoDate]
                              ELSE IF ValidDate(d)
                              THEN [raised |-> FALSE, key |-> bill_date_to_month_end(d)]
                              ELSE [raised |-> TRUE, key |-> NoDate]]
    /\ UNCHANGED <<fn_input, draft_vars, main_vars, store_vars, atco_vars, config_vars>>

NextBillDate == BillDateToMonthEnd

SpecBillDate == InitBillDate /\ [][NextBillDate]_vars

\* C28: a record that passes extraction, normalize_row and validate_data
\* carries a real calendar date (month in 1..12, day valid for that month),
\* and the month-end computation does not fail on it.
C28_ValidatedDateIsCalendarDate ==
    (fn_output # <<>> /\ fn_output.validated) =>
        LET d == ReadIsoDate(fn_output.bill_date.s)
        IN  /\ d[2] \in 1..12
            /\ d[3] \in 1..DaysInMonth(d[1], d[2])
            /\ ~fn_output.month_end.raised

----------------------------------------------------------------------------
(* Steps 4 and 5 of process_single_file (main.py 141-158) on the documents of
   one run, taken from the point where extraction and validation have
   returned their data: rename_file, move_file (os.replace), the record.
   fn_output lists the files of the processed folder as [name, content], the
   content being the source document the file came from. *)

MovedContents ==
    [vendor : BillVendors, house_number : {HouseInt(819), HouseInt(1705)},
     bill_amount : {12345},
     bill_date : {<<2025, 1, 10>>, <<2025, 1, 20>>, <<2025, 2, 10>>}]

MovedFolders ==
    UNION {{[i \in 1..n |-> Doc(i, cs[i])] : cs \in [1..n -> MovedContents]} : n \in 0..MaxDocs}

InitMove ==
    /\ pdf_files \in MovedFolders
    /\ main_pc = "loop" /\ next_file = 1 /\ rows = <<>>
    /\ raw_folder = {pdf_files[i].file : i \in 1..Len(pdf_files)}
    /\ processed_folder = {} /\ images_folder = {}
    /\ rename_files \in BOOLEAN /\ log = <<>>
    /\ DraftIdle /\ StoreIdle /\ AtcoIdle /\ ConfigIdle /\ FnIdle

\* os.replace(src, dst): a file already at dst is replaced.
os_replace(folder, name, content) ==
    SelectSeq(folder, LAMBDA f : f.name # name) \o <<[name |-> name, content |-> content]>>

RenameAndMove ==
    /\ main_pc = "loop" /\ next_file <= Len(pdf_files)
    /\ LET data == pdf_files[next_file]
           target_filename == rename_file(data.file, data.house_number, data.bill_date,
                                          data.vendor, rename_files)
       IN  /\ raw_folder' = raw_folder \ {data.file}
           /\ processed_folder' = processed_folder \cup {target_filename}
           /\ fn_output' = os_replace(fn_output, target_filename, data.file)
           /\ rows' = Append(rows, [file |-> target_filename,
                                    house_number |-> data.house_number,
                                    bill_amount |-> data.bill_amount,
                                    bill_date |-> data.bill_date,
                                    vendor |-> data.vendor])
    /\ next_file' = next_file + 1
    /\ UNCHANGED <<main_pc, pdf_files, images_folder, rename_files, log, fn_input>>
    /\ UNCHANGED <<draft_vars, store_vars, atco_vars, config_vars>>

NextMove == RenameAndMove

SpecMove == InitMove /\ [][NextMove]_vars

\* C29: with renaming enabled, two distinct source documents of a run never
\* receive the same target file name: no two records of the batch share their
\* 'file', and every document moved so far is still in the processed folder
\* (no move has replaced the processed file of another document).
C29_TargetNamesDistinct ==
    (main_pc = "loop" /\ rename_files) =>
        /\ \A i, j \in 1..Len(rows) : i # j => rows[i].file # rows[j].file
        /\ \A i \in 1..(next_file - 1) :
              \E k \in 1..Len(fn_output) : fn_output[k].content = pdf_files[i].file
        /\ Cardinality(processed_folder) = next_file - 1

----------------------------------------------------------------------------
\* C30: process_single_file, called as main calls it, returns a record for
\* every document whose text classifies to a vendor and yields a house and a
\* bill date, unless the move fails: main's rows hold, in document order, one
\* record per such document, its vendor the classifier's output and its
\* fields the normalized output of the extractor.
C30_RecordForEveryExtractableDocument ==
    LET good == {i \in Processed : Extractable(pdf_files[i]) /\ ~MoveFailed(pdf_files[i])}
        Rank(i) == Cardinality({j \in good : j <= i})
    IN  main_pc \in {"loop", "drafts", "done"} =>
            /\ Len(rows) = Cardinality(good)
            /\ \A i \in good :
                  LET doc == pdf_files[i]
                      row == rows[Rank(i)]
                  IN  /\ row.vendor = doc.vendor
                      /\ row.house_number = normalize_row(doc).house_number
                      /\ row.bill_date = doc.bill_date
                      /\ row.bill_amount = doc.bill_amount

====
